---- MODULE Spec2Model ----
(***************************************************************************)
(* Verification model of the JC4880P443C example firmware sketches.        *)
(*                                                                         *)
(* Every example is a separate firmware image, so every example has its    *)
(* own specification (SpecSD, SpecWifi, SpecBattery, SpecBle, SpecScan,    *)
(* SpecReset, SpecRs485, SpecNvs, SpecHttp, SpecAudio); the variables of   *)
(* the other examples stay at their initial values in it. SpecHosted is    *)
(* the board running either of the two scanners that reach the radio       *)
(* through the co-processor; SpecRs485Live is SpecRs485 with a scheduler   *)
(* that lets every task run.                                               *)
(*                                                                         *)
(* Calls into the vendor drivers (ESP-IDF, BSP) are the environment: the   *)
(* result of a driver call is an input chosen with \E in the action of the *)
(* handler that makes the call.                                            *)
(***************************************************************************)
EXTENDS Integers, Sequences, FiniteSets, TLC

VARIABLES
    \* ---- examples/06_sdcard ----
    sd_card,             \* sdmmc_card_t* sd_card            (NULL = 0)
    sd_pwr_ctrl_handle,  \* sd_pwr_ctrl_handle_t             (NULL = 0)
    sd_mounted,          \* bool sd_mounted
    status_label,        \* text of status_label
    mount_btn_label,     \* text of the label inside mount_btn
    file_list,           \* what update_file_list() put into file_list
    ldo_live,            \* driver: rail objects allocated and not yet deleted
    ldo_created,         \* driver: number of rail objects created so far
    ldo_deletes,         \* driver: how often each rail object was deleted
    sd_trace,            \* the steps executed by the most recent callback
    sd_ret,              \* return value of the most recent sd_mount/sd_unmount
    sd_env,              \* that callback: which one, the globals it found, and
                         \* what the drivers were able to do during it
    sd_prev,             \* the callback before it and what its sd_* call returned
    \* ---- 05 WiFi HTTP (src/unnamed/part_004) ----
    wifi_retry_count,    \* int wifi_retry_count
    wifi_event_group,    \* the bits set in wifi_event_group
    wifi_pc,             \* where app_main is in wifi_init_and_connect()
    wifi_bits,           \* EventBits_t bits, what xEventGroupWaitBits returned
    wifi_ret,            \* what wifi_init_and_connect() returned
    ip_label,            \* text of ip_label
    wifi_sta_started,    \* WIFI_EVENT_STA_START has been delivered
    wifi_run,            \* disconnect events since the last got-IP event (or start)
    wifi_run_connects,   \* esp_wifi_connect calls of the disconnect handler in that run
    wifi_run_fail_sets,  \* xEventGroupSetBits(WIFI_FAIL_BIT) calls in that run
    wifi_max_run,        \* the longest run of disconnect events so far
    wifi_last,           \* the most recent event and what its handler found and did
    \* ---- examples/10_battery_adc ----
    bat_pc,              \* where app_main is: "boot", or "run" once the task runs
    adc_calibrated,      \* bool adc_calibrated
    current_voltage_mv,  \* int current_voltage_mv
    current_percent,     \* int current_percent
    bat_read,            \* locals of the last read_battery_voltage() call
    bat_ui,              \* what update_ui() wrote into the labels and the bar
    \* ---- examples/07_bluetooth ----
    ble_pc,              \* where app_main is
    devices,             \* ble_device_t devices[MAX_DEVICES]
    device_count,        \* int device_count
    device_mutex,        \* SemaphoreHandle_t device_mutex (NULL = 0)
    is_scanning,         \* bool is_scanning
    ble_status_label,    \* text of status_label
    count_label,         \* text of count_label (the format it was set with)
    device_list,         \* what device_list shows (hint, "no devices", items)
    bt_stack,            \* co-processor side: "off", "transport" or "ready"
    bt_param_pending,    \* SCAN_PARAM_SET_COMPLETE events not yet delivered
    bt_start_pending,    \* SCAN_START_COMPLETE events not yet delivered
    bt_scanning,         \* the controller is scanning
    ble_trace,           \* the steps executed by the most recent handler
    ble_last,            \* that handler: which one, its input, what it found
    \* ---- examples/04_wifi_scan ----
    scan_pc,             \* where app_main is
    ap_count,            \* uint16_t ap_count
    ap_records,          \* ap_records[]: how many leading records are filled
    scan_status_label,   \* text of status_label
    network_list,        \* what network_list shows
    scan_stack,          \* co-processor side: "off", "transport" or "ready"
    scan_trace,          \* the steps executed by the most recent handler
    scan_last,           \* that handler: which one, and what the driver reported
    \* ---- 08 Reset Device (src/unnamed/part_005) ----
    rst_pc,              \* where app_main is: "reset", or "loop" once the UI exists
    countdown_active,    \* bool countdown_active
    countdown_value,     \* int countdown_value
    countdown_timer,     \* lv_timer_t *countdown_timer (NULL = 0)
    countdown_label,     \* text of countdown_label: format and number
    delayed_btn_label,   \* text of the label inside delayed_btn
    reason_label,        \* text of reason_label (the reset reason)
    rst_ticks,           \* timer callbacks that counted down since the last start
    rst_last,            \* the most recent handler and whether it restarted the chip
    \* ---- examples/12_rs485_serial ----
    rs_pc,               \* where app_main, rs485_task and the LVGL task are
    rs_ret,              \* per task: where it continues after the current call
    rs_local,            \* per task: sent/len of the current call, and the
                         \* value of the counter it has read for its +=
    echo_mode,           \* bool echo_mode
    rx_count,            \* int rx_count
    tx_count,            \* int tx_count
    ui_mutex,            \* the task holding ui_mutex ("none": free)
    disp_lock,           \* display lock (recursive): owner and depth
    rs_status_label,     \* texts of status_label (its format) and of mode_btn
    rs_port,             \* the LVGL task holds the display lock around callbacks
    rs_total,            \* bytes received / written since the last Clear
    \* ---- NVS initialisation at the start of every app_main ----
    nvs_pc,              \* where app_main is in it
    nvs_ret,             \* esp_err_t ret
    nvs_trace,           \* the NVS calls of this boot and their results
    nvs_boots,           \* how often the chip has booted
    \* ---- 05 WiFi HTTP (src/unnamed/part_004): http_fetch ----
    http_pc,             \* where app_main ("main") and the LVGL task are
    http_local,          \* per task: copy_len of the data event being handled
                         \* and the http_buffer_len its check has read
    http_events,         \* per task: data events of the fetch under way
    http_buffer_len,     \* int http_buffer_len
    http_nonzero,        \* http_buffer: the indices that hold a byte other
                         \* than NUL (beyond the array: memory behind it)
    http_oob,            \* a NUL was written behind the end of http_buffer
    http_status_label,   \* text of status_label
    \* ---- MP3 player (src/examples/04_wifi_scan/README.md) ----
    au_pc,               \* where app_main ("main"), auto_play_task ("auto")
                         \* and the LVGL task ("ui") are
    au_local,            \* per task: the value of current_track it has loaded
    total_tracks,        \* int total_tracks
    current_track,       \* int current_track
    is_playing,          \* bool is_playing
    playback_semaphore,  \* count of the binary semaphore
    au_player,           \* the player: "idle" or "playing"
    au_play_index,       \* index last passed to bsp_extra_player_play_index
    au_show_index        \* index last passed to file_iterator_get_name_from_index

sdVars == <<sd_card, sd_pwr_ctrl_handle, sd_mounted, status_label,
            mount_btn_label, file_list, ldo_live, ldo_created, ldo_deletes,
            sd_trace, sd_ret, sd_env, sd_prev>>

wifiVars == <<wifi_retry_count, wifi_event_group, wifi_pc, wifi_bits, wifi_ret,
              ip_label, wifi_sta_started, wifi_run, wifi_run_connects,
              wifi_run_fail_sets, wifi_max_run, wifi_last>>

batVars == <<bat_pc, adc_calibrated, current_voltage_mv, current_percent,
             bat_read, bat_ui>>

bleVars == <<ble_pc, devices, device_count, device_mutex, is_scanning,
             ble_status_label, count_label, device_list, bt_stack,
             bt_param_pending, bt_start_pending, bt_scanning, ble_trace,
             ble_last>>

scanVars == <<scan_pc, ap_count, ap_records, scan_status_label, network_list,
              scan_stack, scan_trace, scan_last>>

rstVars == <<rst_pc, countdown_active, countdown_value, countdown_timer,
             countdown_label, delayed_btn_label, reason_label, rst_ticks,
             rst_last>>

rsVars == <<rs_pc, rs_ret, rs_local, echo_mode, rx_count, tx_count, ui_mutex,
            disp_lock, rs_status_label, rs_port, rs_total>>

nvsVars == <<nvs_pc, nvs_ret, nvs_trace, nvs_boots>>

httpVars == <<http_pc, http_local, http_events, http_buffer_len,
              http_nonzero, http_oob, http_status_label>>

auVars == <<au_pc, au_local, total_tracks, current_track, is_playing,
            playback_semaphore, au_player, au_play_index, au_show_index>>

vars == <<sdVars, wifiVars, batVars, bleVars, scanVars, rstVars, rsVars, nvsVars, httpVars, auVars>>

\* Each example is a firmware image of its own: while one runs, the state of
\* the other ones does not exist and is kept at its initial value.
OnlySd == UNCHANGED <<wifiVars, batVars, bleVars, scanVars, rstVars, rsVars, nvsVars, httpVars, auVars>>
OnlyWifi == UNCHANGED <<sdVars, batVars, bleVars, scanVars, rstVars, rsVars, nvsVars, httpVars, auVars>>
OnlyBattery == UNCHANGED <<sdVars, wifiVars, bleVars, scanVars, rstVars, rsVars, nvsVars, httpVars, auVars>>
OnlyBle == UNCHANGED <<sdVars, wifiVars, batVars, scanVars, rstVars, rsVars, nvsVars, httpVars, auVars>>
OnlyScan == UNCHANGED <<sdVars, wifiVars, batVars, bleVars, rstVars, rsVars, nvsVars, httpVars, auVars>>
OnlyReset == UNCHANGED <<sdVars, wifiVars, batVars, bleVars, scanVars, rsVars, nvsVars, httpVars, auVars>>
OnlyRs485 == UNCHANGED <<sdVars, wifiVars, batVars, bleVars, scanVars, rstVars, nvsVars, httpVars, auVars>>
OnlyNvs == UNCHANGED <<sdVars, wifiVars, batVars, bleVars, scanVars, rstVars, rsVars, httpVars, auVars>>
OnlyHttp == UNCHANGED <<sdVars, wifiVars, batVars, bleVars, scanVars, rstVars, rsVars, nvsVars, auVars>>
OnlyAudio == UNCHANGED <<sdVars, wifiVars, batVars, bleVars, scanVars, rstVars, rsVars, nvsVars, httpVars>>

(***************************************************************************)
(* Bounds                                                                  *)
(***************************************************************************)
\* Mount clicks stop once this many rail objects have been created.
MaxRails == 3
\* Disconnect events stop once this many have arrived in a row.
MaxDisc == 8
\* Calibrated voltages are drawn from the configured range widened by this.
VoltMargin == 5
\* Scan taps stop while this many scan requests wait for the stack's answer.
MaxPending == 2
\* The UART moves no more bytes once this many were counted since a Clear.
MaxBytes == 2
\* The chip reboots at most this often.
MaxBoots == 3
\* A fetch delivers at most this many data events.
MaxEvents == 2
\* The music directory holds at most this many tracks.
MaxTracks == 3

(***************************************************************************)
(* Common constants                                                        *)
(***************************************************************************)
NULL == 0
ESP_OK == "ESP_OK"

\* Results the drivers can hand back (ESP_OK or an esp_err_t error code).
LdoResults == {"ESP_OK", "ESP_ERR_NO_MEM"}
MountResults == {"ESP_OK", "ESP_ERR_TIMEOUT", "ESP_FAIL"}
UnmountResults == {"ESP_OK", "ESP_ERR_INVALID_ARG", "ESP_FAIL"}
DirResults == {"open_failed", "empty", "files"}
FopenResults == {"FILE", "NULL"}

\* The non-NULL card pointer esp_vfs_fat_sdmmc_mount stores into sd_card.
CARD == 1

Step(call, res, arg) == [call |-> call, res |-> res, arg |-> arg]

(***************************************************************************)
(* examples/06_sdcard: the driver calls, as functions of the program state *)
(* s (see SdState): card, handle, mounted, status, btn, files are the       *)
(* program's globals and widgets; live, created, deletes the LDO driver's  *)
(* objects; trace, ret, env describe the callback being executed.          *)
(***************************************************************************)

\* sd_pwr_ctrl_new_on_chip_ldo(&ldo_config, &sd_pwr_ctrl_handle): LDO channel
\* 4 can be acquired by one rail object at a time (the leak the example works
\* around); the out-parameter is written on success only.
sd_pwr_ctrl_new_on_chip_ldo(s, want) ==
    LET res == IF s.live # {} THEN "ESP_ERR_INVALID_ARG" ELSE want
        id  == s.created + 1
    IN IF res = ESP_OK
       THEN [s EXCEPT !.handle = id, !.live = @ \cup {id}, !.created = id,
                      !.ret = res,
                      !.trace = Append(@, Step("ldo_new", res, Cardinality(s.live)))]
       ELSE [s EXCEPT !.ret = res,
                      !.trace = Append(@, Step("ldo_new", res, Cardinality(s.live)))]

\* sd_pwr_ctrl_del_on_chip_ldo(handle): frees the rail object.
sd_pwr_ctrl_del_on_chip_ldo(s, h) ==
    [s EXCEPT !.live = @ \ {h},
              !.deletes = [r \in DOMAIN @ |-> IF r = h THEN @[r] + 1 ELSE @[r]],
              !.trace = Append(@, Step("ldo_del", ESP_OK, h))]

\* esp_vfs_fat_sdmmc_mount(..., &sd_card): stores the card on success.
esp_vfs_fat_sdmmc_mount(s, want) ==
    [s EXCEPT !.card = IF want = ESP_OK THEN CARD ELSE @,
              !.ret = want,
              !.trace = Append(@, Step("fs_mount", want, s.handle))]

\* esp_vfs_fat_sdcard_unmount(BSP_SD_MOUNT_POINT, sd_card)
esp_vfs_fat_sdcard_unmount(s, want) ==
    [s EXCEPT !.ret = want,
              !.trace = Append(@, Step("fs_unmount", want, s.card))]

Assign(s, what) == [s EXCEPT !.trace = Append(@, Step(what, ESP_OK, NULL))]

(***************************************************************************)
(* examples/06_sdcard: sd_mount / sd_unmount                               *)
(***************************************************************************)
\* Mutant: the rail is not released when the filesystem mount fails.
sd_mount_leak(s, ldoWant, fsWant) ==
    LET s1 == sd_pwr_ctrl_new_on_chip_ldo(s, ldoWant) IN
    IF s1.ret # ESP_OK THEN s1 ELSE esp_vfs_fat_sdmmc_mount(s1, fsWant)

\* Mutant: a failed rail creation does not stop sd_mount.
sd_mount_noearly(s, ldoWant, fsWant) ==
    LET s1 == sd_pwr_ctrl_new_on_chip_ldo(s, ldoWant)
        s2 == esp_vfs_fat_sdmmc_mount(s1, fsWant)
    IN IF s2.ret # ESP_OK /\ s2.handle # NULL
       THEN LET s3 == sd_pwr_ctrl_del_on_chip_ldo(s2, s2.handle)
            IN Assign([s3 EXCEPT !.handle = NULL], "handle=NULL")
       ELSE s2

sd_mount(s, ldoWant, fsWant) ==
    LET s1 == sd_pwr_ctrl_new_on_chip_ldo(s, ldoWant) IN
    IF s1.ret # ESP_OK THEN s1
    ELSE LET s2 == esp_vfs_fat_sdmmc_mount(s1, fsWant) IN
         IF s2.ret # ESP_OK
         THEN LET s3 == sd_pwr_ctrl_del_on_chip_ldo(s2, s2.handle)
              IN Assign([s3 EXCEPT !.handle = NULL], "handle=NULL")
         ELSE s2

\* Mutant: the rail is kept across the unmount (what the BSP helper does).
sd_unmount_bsp(s, fsWant) ==
    Assign([esp_vfs_fat_sdcard_unmount(s, fsWant) EXCEPT !.card = NULL], "card=NULL")

\* Mutant: the rail is released but the handle is not cleared.
sd_unmount_noclear(s, fsWant) ==
    LET s1 == esp_vfs_fat_sdcard_unmount(s, fsWant)
        s2 == Assign([s1 EXCEPT !.card = NULL], "card=NULL")
    IN IF s2.handle # NULL THEN sd_pwr_ctrl_del_on_chip_ldo(s2, s2.handle) ELSE s2

\* Mutant: the rail is released without the NULL check.
sd_unmount_unguarded(s, fsWant) ==
    LET s1 == esp_vfs_fat_sdcard_unmount(s, fsWant)
        s2 == Assign([s1 EXCEPT !.card = NULL], "card=NULL")
        s3 == sd_pwr_ctrl_del_on_chip_ldo(s2, s2.handle)
    IN Assign([s3 EXCEPT !.handle = NULL], "handle=NULL")

\* Mutant: the rail is released before the filesystem is unmounted.
sd_unmount_railfirst(s, fsWant) ==
    LET s1 == IF s.handle # NULL
              THEN Assign([sd_pwr_ctrl_del_on_chip_ldo(s, s.handle)
                             EXCEPT !.handle = NULL], "handle=NULL")
              ELSE s
        s2 == esp_vfs_fat_sdcard_unmount(s1, fsWant)
    IN Assign([s2 EXCEPT !.card = NULL], "card=NULL")

sd_unmount(s, fsWant) ==
    LET s1 == esp_vfs_fat_sdcard_unmount(s, fsWant)
        s2 == Assign([s1 EXCEPT !.card = NULL], "card=NULL")
    IN IF s2.handle # NULL
       THEN LET s3 == sd_pwr_ctrl_del_on_chip_ldo(s2, s2.handle)
            IN Assign([s3 EXCEPT !.handle = NULL], "handle=NULL")
       ELSE s2

(***************************************************************************)
(* examples/06_sdcard: the UI callbacks                                    *)
(***************************************************************************)
Lock(s) == [s EXCEPT !.trace = Append(@, Step("bsp_display_lock", ESP_OK, NULL))]
Unlock(s) == [s EXCEPT !.trace = Append(@, Step("bsp_display_unlock", ESP_OK, NULL))]

\* update_file_list(): file_list is non-NULL once create_ui() has run.
update_file_list(s, dirWant) ==
    LET s1 == Assign(Lock(s), "lv_obj_clean") IN
    IF ~s1.mounted
    THEN Unlock([s1 EXCEPT !.files = "SD card not mounted"])
    ELSE LET s2 == [s1 EXCEPT !.trace = Append(@, Step("opendir", dirWant, NULL))] IN
         IF dirWant = "open_failed"
         THEN Unlock([s2 EXCEPT !.files = "Failed to open directory"])
         ELSE Unlock([s2 EXCEPT !.files = IF dirWant = "empty"
                                          THEN "SD card is empty"
                                          ELSE "files",
                                !.trace = Append(@, Step("closedir", ESP_OK, NULL))])

mount_btn_click_cb(s, ldoWant, fsWant, umWant, dirWant) ==
    LET s0 == Lock(s) IN
    IF s0.mounted
    THEN LET s1 == sd_unmount(s0, umWant)
             s2 == IF s1.ret = ESP_OK
                   THEN [s1 EXCEPT !.mounted = FALSE,
                                   !.status = "SD card unmounted",
                                   !.btn = "Mount"]
                   ELSE [s1 EXCEPT !.status = "Unmount failed!"]
         IN update_file_list(Unlock(s2), dirWant)
    ELSE LET s1 == sd_mount(Unlock([s0 EXCEPT !.status = "Mounting..."]),
                            ldoWant, fsWant)
             s2 == Lock(s1)
             s3 == IF s2.ret = ESP_OK
                   THEN [s2 EXCEPT !.mounted = TRUE,
                                   !.status = "Mounted",
                                   !.btn = "Unmount",
                                   !.trace = Append(@, Step("read_sd_card", ESP_OK, s2.card))]
                   ELSE [s2 EXCEPT !.status = "Mount failed! Insert SD card"]
         IN update_file_list(Unlock(s3), dirWant)

\* Mutant: the file is written without the check of sd_mounted.
write_btn_click_cb_nocheck(s, fopenWant, dirWant) ==
    LET s1 == [s EXCEPT !.trace = Append(@, Step("fopen", fopenWant, NULL))] IN
    IF fopenWant = "NULL"
    THEN Unlock([Lock(s1) EXCEPT !.status = "Failed to create file!"])
    ELSE LET s2 == [s1 EXCEPT !.trace = Append(@, Step("fclose", ESP_OK, NULL))]
         IN update_file_list(
                Unlock([Lock(s2) EXCEPT !.status = "Test file created!"]),
                dirWant)

write_btn_click_cb(s, fopenWant, dirWant) ==
    IF ~s.mounted
    THEN Unlock([Lock(s) EXCEPT !.status = "Mount SD card first!"])
    ELSE LET s1 == [s EXCEPT !.trace = Append(@, Step("fopen", fopenWant, NULL))] IN
         IF fopenWant = "NULL"
         THEN Unlock([Lock(s1) EXCEPT !.status = "Failed to create file!"])
         ELSE LET s2 == [s1 EXCEPT !.trace = Append(@, Step("fclose", ESP_OK, NULL))]
              IN update_file_list(
                     Unlock([Lock(s2) EXCEPT !.status = "Test file created!"]),
                     dirWant)

(***************************************************************************)
(* examples/06_sdcard: the state machine                                   *)
(***************************************************************************)
SdState ==
    [card |-> sd_card, handle |-> sd_pwr_ctrl_handle, mounted |-> sd_mounted,
     status |-> status_label, btn |-> mount_btn_label, files |-> file_list,
     live |-> ldo_live, created |-> ldo_created, deletes |-> ldo_deletes,
     trace |-> sd_trace, ret |-> sd_ret, env |-> sd_env]

SdSet(s) ==
    /\ sd_card' = s.card
    /\ sd_pwr_ctrl_handle' = s.handle
    /\ sd_mounted' = s.mounted
    /\ status_label' = s.status
    /\ mount_btn_label' = s.btn
    /\ file_list' = s.files
    /\ ldo_live' = s.live
    /\ ldo_created' = s.created
    /\ ldo_deletes' = s.deletes
    /\ sd_trace' = s.trace
    /\ sd_ret' = s.ret
    /\ sd_env' = s.env
    /\ sd_prev' = [cb |-> sd_env.cb, ret |-> sd_ret]

\* A callback starts with an empty trace; env records the callback, the
\* globals it found and what the drivers were able to do ("-" for a driver the
\* callback's branch does not reach).
SdEnter(cb, ldoWant, fsWant, umWant) ==
    [SdState EXCEPT !.trace = <<>>, !.ret = "-",
                    !.env = [cb |-> cb, card0 |-> sd_card,
                             handle0 |-> sd_pwr_ctrl_handle,
                             mounted0 |-> sd_mounted, live0 |-> ldo_live,
                             ldo |-> ldoWant, fs |-> fsWant, um |-> umWant]]

\* State after app_main() has created the UI (create_ui).
SdInit ==
    /\ sd_card = NULL
    /\ sd_pwr_ctrl_handle = NULL
    /\ sd_mounted = FALSE
    /\ status_label = "Press Mount to access SD card"
    /\ mount_btn_label = "Mount"
    /\ file_list = "SD card files will appear here"
    /\ ldo_live = {}
    /\ ldo_created = 0
    /\ ldo_deletes = [r \in 1..MaxRails |-> 0]
    /\ sd_trace = <<>>
    /\ sd_ret = "-"
    /\ sd_env = [cb |-> "-", card0 |-> NULL, handle0 |-> NULL,
                 mounted0 |-> FALSE, live0 |-> {},
                 ldo |-> "-", fs |-> "-", um |-> "-"]
    /\ sd_prev = [cb |-> "-", ret |-> "-"]

\* The user taps the Mount/Unmount button while the card is unmounted.
MountClick ==
    /\ ~sd_mounted
    /\ ldo_created < MaxRails
    /\ \E ldoWant \in LdoResults, fsWant \in MountResults, dirWant \in DirResults :
          SdSet(mount_btn_click_cb(SdEnter("mount", ldoWant, fsWant, "-"),
                                   ldoWant, fsWant, "-", dirWant))
    /\ OnlySd

\* The user taps the Mount/Unmount button while sd_mounted is set.
UnmountClick ==
    /\ sd_mounted
    /\ \E umWant \in UnmountResults, dirWant \in DirResults :
          SdSet(mount_btn_click_cb(SdEnter("unmount", "-", "-", umWant),
                                   "-", "-", umWant, dirWant))
    /\ OnlySd

\* The user taps the Write Test button.
WriteClick ==
    /\ \E fopenWant \in FopenResults, dirWant \in DirResults :
          SdSet(write_btn_click_cb(SdEnter("write", "-", "-", "-"), fopenWant, dirWant))
    /\ OnlySd

SdNext == MountClick \/ UnmountClick \/ WriteClick

(***************************************************************************)
(* examples/06_sdcard: properties                                          *)
(***************************************************************************)
\* The positions of the most recent callback's trace that made the call.
SdCalls(call) == {i \in DOMAIN sd_trace : sd_trace[i].call = call}

\* The steps that belong to sd_mount()/sd_unmount() (the rest of a trace is
\* the callback's own locking and display work).
SdOpCalls == {"ldo_new", "fs_mount", "fs_unmount", "ldo_del", "card=NULL", "handle=NULL"}
SdDriverCalls == {"ldo_new", "fs_mount", "fs_unmount"}

\* C1: between button callbacks the power-rail handle is non-NULL exactly
\* when sd_mounted is set (never non-NULL while unmounted, never NULL while
\* mounted).
C1_RailPairedWithMounted ==
    sd_mounted <=> (sd_pwr_ctrl_handle # NULL)

\* C2: whenever sd_mount() returns an error (rail creation failed or the
\* filesystem mount failed), the power-rail handle is NULL afterwards and no
\* rail object remains allocated.
C2_MountFailureLeavesNoRail ==
    (sd_env.cb = "mount" /\ sd_ret # ESP_OK)
        => (sd_pwr_ctrl_handle = NULL /\ ldo_live = {})

\* C2 witness: a mount click whose rail was created and whose filesystem
\* mount then failed (no card).
C2_Witness ==
    /\ sd_env.cb = "mount"
    /\ sd_ret = "ESP_ERR_TIMEOUT"
    /\ \E i \in SdCalls("ldo_new") : sd_trace[i].res = ESP_OK

\* C3: after sd_unmount() the rail handle is NULL and no rail is left
\* allocated; every sd_mount() finds the LDO channel free; and sd_mount()
\* succeeds whenever the drivers are able to create the rail and mount the
\* card, in every mount/unmount cycle.
C3_RemountRoundTrip ==
    /\ sd_env.cb = "unmount" => (sd_pwr_ctrl_handle = NULL /\ ldo_live = {})
    /\ sd_env.cb = "mount" =>
          /\ \A i \in SdCalls("ldo_new") : sd_trace[i].arg = 0
          /\ (sd_env.ldo = ESP_OK /\ sd_env.fs = ESP_OK) =>
                /\ sd_ret = ESP_OK
                /\ sd_mounted
                /\ sd_pwr_ctrl_handle # NULL
                /\ ldo_live = {sd_pwr_ctrl_handle}

\* C3 witness: a successful mount right after a successful unmount, in the
\* second cycle or later.
C3_Witness ==
    /\ sd_prev.cb = "unmount" /\ sd_prev.ret = ESP_OK
    /\ sd_env.cb = "mount" /\ sd_ret = ESP_OK
    /\ ldo_created >= 2

\* C4: no rail object is deleted twice, at most one rail object is live, a
\* created rail is either the live one the handle points to or was deleted
\* exactly once, a rail is live between callbacks only while mounted, and
\* sd_pwr_ctrl_new_on_chip_ldo is never called while a rail is live.
C4_RailDeletedExactlyOnce ==
    /\ \A r \in DOMAIN ldo_deletes : ldo_deletes[r] <= 1
    /\ Cardinality(ldo_live) <= 1
    /\ ldo_live \subseteq {sd_pwr_ctrl_handle}
    /\ \A r \in 1..ldo_created : (r \in ldo_live) <=> (ldo_deletes[r] = 0)
    /\ ldo_live # {} => sd_mounted
    /\ \A i \in SdCalls("ldo_new") : sd_trace[i].arg = 0

\* C4 witness: two rails were created and deleted, one on a failed mount and
\* one on an unmount, and a third one is live.
C4_Witness ==
    /\ ldo_created = 3
    /\ ldo_deletes[1] = 1 /\ ldo_deletes[2] = 1
    /\ ldo_live = {3}
    /\ sd_prev.cb = "unmount"

\* The callback called sd_unmount() while sd_card and the rail handle were
\* both NULL.
C5_UnmountWhileNotMounted ==
    sd_env.cb = "unmount" /\ sd_env.card0 = NULL /\ sd_env.handle0 = NULL

C6_FailureStopsSequence ==
    \A i \in DOMAIN sd_trace :
        (sd_trace[i].call \in SdDriverCalls /\ sd_trace[i].res # ESP_OK) =>
            /\ sd_ret = sd_trace[i].res
            /\ \A j \in DOMAIN sd_trace :
                  j > i => sd_trace[j].call \notin SdDriverCalls
            /\ sd_trace[i].call = "fs_unmount" =>
                  \A j \in DOMAIN sd_trace :
                      j > i => sd_trace[j].call \notin SdOpCalls

\* C6 (amended): when a driver step fails, its error code is returned
\* unchanged and no driver step is retried or started after it; a failed
\* rail creation ends sd_mount() at once, a failed filesystem mount is
\* followed only by the release of the rail just created, but a failed
\* filesystem unmount does not stop sd_unmount(): the card handle is still
\* cleared and the rail, if any, is still released and its handle cleared.
C6_FailureReturnsCodeUnmountContinues ==
    /\ \A c \in SdDriverCalls : Cardinality(SdCalls(c)) <= 1
    /\ \A i \in DOMAIN sd_trace :
        (sd_trace[i].call \in SdDriverCalls /\ sd_trace[i].res # ESP_OK) =>
            LET later == {sd_trace[j].call : j \in {k \in DOMAIN sd_trace : k > i}}
                           \cap SdOpCalls
            IN /\ sd_ret = sd_trace[i].res
               /\ later \cap SdDriverCalls = {}
               /\ sd_trace[i].call = "ldo_new" => later = {}
               /\ sd_trace[i].call = "fs_mount" =>
                     /\ later = {"ldo_del", "handle=NULL"}
                     /\ sd_pwr_ctrl_handle = NULL /\ ldo_live = {}
               /\ sd_trace[i].call = "fs_unmount" =>
                     /\ later = IF sd_env.handle0 # NULL
                                THEN {"card=NULL", "ldo_del", "handle=NULL"}
                                ELSE {"card=NULL"}
                     /\ sd_card = NULL /\ sd_pwr_ctrl_handle = NULL
                     /\ ldo_live = {}

\* C6 witness: the filesystem unmount failed while a rail was held, and the
\* rail was released all the same.
C6_Witness ==
    /\ sd_env.cb = "unmount" /\ sd_env.handle0 # NULL
    /\ sd_ret = "ESP_FAIL"
    /\ SdCalls("ldo_del") # {}

(***************************************************************************)
(* 05 WiFi HTTP: wifi_event_handler and wifi_init_and_connect              *)
(*                                                                         *)
(* w (see WifiState) holds the example's globals and the position of       *)
(* app_main; the handler runs in the event-loop task, one event at a time. *)
(***************************************************************************)
WIFI_MAX_RETRY == 5
WIFI_CONNECTED_BIT == "WIFI_CONNECTED_BIT"
WIFI_FAIL_BIT == "WIFI_FAIL_BIT"

\* The if/else chain after xEventGroupWaitBits in wifi_init_and_connect().
WifiWaitResult(bits) ==
    IF WIFI_CONNECTED_BIT \in bits THEN ESP_OK
    ELSE IF WIFI_FAIL_BIT \in bits THEN "ESP_FAIL"
    ELSE "ESP_ERR_TIMEOUT"

\* xEventGroupSetBits(wifi_event_group, bit): a task blocked in
\* xEventGroupWaitBits on one of the bits is released with the value the
\* group has at that moment.
xEventGroupSetBits(w, bit) ==
    LET g == w.event_group \cup {bit} IN
    IF w.pc = "wait"
    THEN [w EXCEPT !.event_group = g, !.pc = "done", !.bits = g,
                   !.ret = WifiWaitResult(g)]
    ELSE [w EXCEPT !.event_group = g]

\* What wifi_last records about the event being handled.
WifiEvent(w, event_id, connect, fail) ==
    [ev |-> event_id, count0 |-> w.retry_count, run0 |-> w.run,
     fails0 |-> w.run_fail_sets, connect |-> connect, fail |-> fail]

\* Mutant: the got-IP branch does not reset wifi_retry_count.
wifi_event_handler_noreset(w, event_id) ==
    CASE event_id = "WIFI_EVENT_STA_START" ->
            [w EXCEPT !.last = WifiEvent(w, event_id, TRUE, FALSE)]
      [] event_id = "WIFI_EVENT_STA_DISCONNECTED" ->
            IF w.retry_count < WIFI_MAX_RETRY
            THEN [w EXCEPT !.retry_count = @ + 1,
                           !.run_connects = @ + 1,
                           !.last = WifiEvent(w, event_id, TRUE, FALSE)]
            ELSE [xEventGroupSetBits(w, WIFI_FAIL_BIT)
                     EXCEPT !.run_fail_sets = @ + 1,
                            !.last = WifiEvent(w, event_id, FALSE, TRUE)]
      [] event_id = "IP_EVENT_STA_GOT_IP" ->
            [xEventGroupSetBits(w, WIFI_CONNECTED_BIT)
                EXCEPT !.ip_label = "IP: address",
                       !.last = WifiEvent(w, event_id, FALSE, FALSE)]
      [] OTHER -> w

\* Mutant: the retry test is <= instead of <.
wifi_event_handler_offbyone(w, event_id) ==
    CASE event_id = "WIFI_EVENT_STA_START" ->
            [w EXCEPT !.last = WifiEvent(w, event_id, TRUE, FALSE)]
      [] event_id = "WIFI_EVENT_STA_DISCONNECTED" ->
            IF w.retry_count <= WIFI_MAX_RETRY
            THEN [w EXCEPT !.retry_count = @ + 1,
                           !.run_connects = @ + 1,
                           !.last = WifiEvent(w, event_id, TRUE, FALSE)]
            ELSE [xEventGroupSetBits(w, WIFI_FAIL_BIT)
                     EXCEPT !.run_fail_sets = @ + 1,
                            !.last = WifiEvent(w, event_id, FALSE, TRUE)]
      [] event_id = "IP_EVENT_STA_GOT_IP" ->
            [xEventGroupSetBits([w EXCEPT !.retry_count = 0], WIFI_CONNECTED_BIT)
                EXCEPT !.ip_label = "IP: address",
                       !.last = WifiEvent(w, event_id, FALSE, FALSE)]
      [] OTHER -> w

\* Mutant: the failure branch reconnects as well.
wifi_event_handler_reconnects(w, event_id) ==
    CASE event_id = "WIFI_EVENT_STA_START" ->
            [w EXCEPT !.last = WifiEvent(w, event_id, TRUE, FALSE)]
      [] event_id = "WIFI_EVENT_STA_DISCONNECTED" ->
            IF w.retry_count < WIFI_MAX_RETRY
            THEN [w EXCEPT !.retry_count = @ + 1,
                           !.run_connects = @ + 1,
                           !.last = WifiEvent(w, event_id, TRUE, FALSE)]
            ELSE [xEventGroupSetBits(w, WIFI_FAIL_BIT)
                     EXCEPT !.run_fail_sets = @ + 1,
                            !.run_connects = @ + 1,
                            !.last = WifiEvent(w, event_id, TRUE, TRUE)]
      [] event_id = "IP_EVENT_STA_GOT_IP" ->
            [xEventGroupSetBits([w EXCEPT !.retry_count = 0], WIFI_CONNECTED_BIT)
                EXCEPT !.ip_label = "IP: address",
                       !.last = WifiEvent(w, event_id, FALSE, FALSE)]
      [] OTHER -> w

\* wifi_event_handler(): run_connects counts the esp_wifi_connect calls of
\* the disconnect branch, run_fail_sets the WIFI_FAIL_BIT signals.
wifi_event_handler(w, event_id) ==
    CASE event_id = "WIFI_EVENT_STA_START" ->
            [w EXCEPT !.last = WifiEvent(w, event_id, TRUE, FALSE)]
      [] event_id = "WIFI_EVENT_STA_DISCONNECTED" ->
            IF w.retry_count < WIFI_MAX_RETRY
            THEN [w EXCEPT !.retry_count = @ + 1,
                           !.run_connects = @ + 1,
                           !.last = WifiEvent(w, event_id, TRUE, FALSE)]
            ELSE [xEventGroupSetBits(w, WIFI_FAIL_BIT)
                     EXCEPT !.run_fail_sets = @ + 1,
                            !.last = WifiEvent(w, event_id, FALSE, TRUE)]
      [] event_id = "IP_EVENT_STA_GOT_IP" ->
            [xEventGroupSetBits([w EXCEPT !.retry_count = 0], WIFI_CONNECTED_BIT)
                EXCEPT !.ip_label = "IP: address",
                       !.last = WifiEvent(w, event_id, FALSE, FALSE)]
      [] OTHER -> w

WifiState ==
    [retry_count |-> wifi_retry_count, event_group |-> wifi_event_group,
     pc |-> wifi_pc, bits |-> wifi_bits, ret |-> wifi_ret, ip_label |-> ip_label,
     run |-> wifi_run, run_connects |-> wifi_run_connects,
     run_fail_sets |-> wifi_run_fail_sets, last |-> wifi_last]

WifiSet(w) ==
    /\ wifi_retry_count' = w.retry_count
    /\ wifi_event_group' = w.event_group
    /\ wifi_pc' = w.pc
    /\ wifi_bits' = w.bits
    /\ wifi_ret' = w.ret
    /\ ip_label' = w.ip_label
    /\ wifi_run_connects' = w.run_connects
    /\ wifi_run_fail_sets' = w.run_fail_sets
    /\ wifi_last' = w.last

\* State when app_main() enters wifi_init_and_connect() (UI created,
\* transport initialised).
WifiInit ==
    /\ wifi_retry_count = 0
    /\ wifi_event_group = {}
    /\ wifi_pc = "init"
    /\ wifi_bits = {}
    /\ wifi_ret = "-"
    /\ ip_label = "IP: Connecting..."
    /\ wifi_sta_started = FALSE
    /\ wifi_run = 0
    /\ wifi_run_connects = 0
    /\ wifi_run_fail_sets = 0
    /\ wifi_max_run = 0
    /\ wifi_last = [ev |-> "-", count0 |-> 0, run0 |-> 0, fails0 |-> 0,
                    connect |-> FALSE, fail |-> FALSE]

\* wifi_init_and_connect() up to and including esp_wifi_start().
WifiStart ==
    /\ wifi_pc = "init"
    /\ wifi_pc' = "started"
    /\ UNCHANGED <<wifi_retry_count, wifi_event_group, wifi_bits, wifi_ret,
                   ip_label, wifi_sta_started, wifi_run, wifi_run_connects,
                   wifi_run_fail_sets, wifi_max_run, wifi_last>>
    /\ OnlyWifi

\* app_main calls xEventGroupWaitBits: it returns at once when a bit is
\* already set and blocks otherwise.
WifiWaitBits ==
    /\ wifi_pc = "started"
    /\ IF wifi_event_group # {}
       THEN /\ wifi_pc' = "done"
            /\ wifi_bits' = wifi_event_group
            /\ wifi_ret' = WifiWaitResult(wifi_event_group)
       ELSE /\ wifi_pc' = "wait"
            /\ UNCHANGED <<wifi_bits, wifi_ret>>
    /\ UNCHANGED <<wifi_retry_count, wifi_event_group, ip_label,
                   wifi_sta_started, wifi_run, wifi_run_connects,
                   wifi_run_fail_sets, wifi_max_run, wifi_last>>
    /\ OnlyWifi

\* The 30 s of xEventGroupWaitBits pass with no bit set.
WifiWaitTimeout ==
    /\ wifi_pc = "wait"
    /\ wifi_pc' = "done"
    /\ wifi_bits' = wifi_event_group
    /\ wifi_ret' = WifiWaitResult(wifi_event_group)
    /\ UNCHANGED <<wifi_retry_count, wifi_event_group, ip_label,
                   wifi_sta_started, wifi_run, wifi_run_connects,
                   wifi_run_fail_sets, wifi_max_run, wifi_last>>
    /\ OnlyWifi

\* The event loop delivers WIFI_EVENT_STA_START (once, after esp_wifi_start).
StaStartEvent ==
    /\ wifi_pc # "init"
    /\ ~wifi_sta_started
    /\ wifi_sta_started' = TRUE
    /\ WifiSet(wifi_event_handler(WifiState, "WIFI_EVENT_STA_START"))
    /\ UNCHANGED <<wifi_run, wifi_max_run>>
    /\ OnlyWifi

\* The event loop delivers WIFI_EVENT_STA_DISCONNECTED.
DisconnectedEvent ==
    /\ wifi_sta_started
    /\ wifi_run < MaxDisc
    /\ wifi_run' = wifi_run + 1
    /\ wifi_max_run' = IF wifi_run + 1 > wifi_max_run THEN wifi_run + 1
                       ELSE wifi_max_run
    /\ WifiSet(wifi_event_handler(WifiState, "WIFI_EVENT_STA_DISCONNECTED"))
    /\ UNCHANGED wifi_sta_started
    /\ OnlyWifi

\* The event loop delivers IP_EVENT_STA_GOT_IP: a new run starts.
GotIpEvent ==
    /\ wifi_sta_started
    /\ wifi_run' = 0
    /\ WifiSet([wifi_event_handler(WifiState, "IP_EVENT_STA_GOT_IP")
                   EXCEPT !.run_connects = 0, !.run_fail_sets = 0])
    /\ UNCHANGED <<wifi_sta_started, wifi_max_run>>
    /\ OnlyWifi

WifiNext ==
    \/ WifiStart
    \/ WifiWaitBits
    \/ WifiWaitTimeout
    \/ StaStartEvent
    \/ DisconnectedEvent
    \/ GotIpEvent

(***************************************************************************)
(* 05 WiFi HTTP: properties                                                *)
(***************************************************************************)
\* C7: for N <= 5 disconnect events in a row since the start or the last
\* got-IP event, wifi_retry_count is exactly N and the failure bit has not
\* been signalled in that run; a got-IP event that ends such a run found the
\* counter at N and leaves it at 0; and while no run was longer than 5 the
\* failure bit is not set in the event group.
C7_RetryCountTracksDisconnects ==
    /\ wifi_run <= WIFI_MAX_RETRY =>
          (wifi_retry_count = wifi_run /\ wifi_run_fail_sets = 0)
    /\ (wifi_last.ev = "IP_EVENT_STA_GOT_IP" /\ wifi_last.run0 <= WIFI_MAX_RETRY) =>
          /\ wifi_last.count0 = wifi_last.run0
          /\ wifi_last.fails0 = 0
          /\ wifi_retry_count = 0
    /\ wifi_max_run <= WIFI_MAX_RETRY => WIFI_FAIL_BIT \notin wifi_event_group

\* C7 witness: a got-IP event has just ended a run of 5 disconnect events.
C7_Witness ==
    /\ wifi_last.ev = "IP_EVENT_STA_GOT_IP"
    /\ wifi_last.run0 = 5 /\ wifi_last.count0 = 5
    /\ wifi_retry_count = 0
    /\ WIFI_FAIL_BIT \notin wifi_event_group

\* C8: in a run of disconnect events the failure bit is signalled on the 6th
\* event, not earlier, and after 6 events it has been signalled exactly once;
\* wifi_init_and_connect does not keep waiting once a bit is set, returns
\* ESP_FAIL when it finds the failure bit without the connected bit, and
\* returns ESP_OK only when it finds the connected bit.
C8_FailureRaisedOnSixthDisconnect ==
    /\ wifi_run < WIFI_MAX_RETRY + 1 => wifi_run_fail_sets = 0
    /\ wifi_run = WIFI_MAX_RETRY + 1 => (wifi_run_fail_sets = 1 /\ wifi_last.fail)
    /\ wifi_pc = "wait" => wifi_event_group = {}
    /\ (wifi_pc = "done" /\ WIFI_FAIL_BIT \in wifi_bits
                         /\ WIFI_CONNECTED_BIT \notin wifi_bits) =>
          wifi_ret = "ESP_FAIL"
    /\ wifi_ret = ESP_OK => WIFI_CONNECTED_BIT \in wifi_bits

\* C8 witness: 6 disconnect events arrived with no got-IP event at all and
\* wifi_init_and_connect has returned ESP_FAIL.
C8_Witness ==
    /\ wifi_run = 6 /\ wifi_max_run = 6
    /\ wifi_event_group = {WIFI_FAIL_BIT}
    /\ wifi_pc = "done" /\ wifi_ret = "ESP_FAIL"

\* C9: the disconnect handler issues at most 5 esp_wifi_connect calls per
\* run of disconnect events, wifi_retry_count stays within 0..5, and a
\* disconnect event that finds the counter at the limit issues no reconnect
\* and leaves the counter there.
C9_AtMostFiveReconnects ==
    /\ wifi_run_connects <= WIFI_MAX_RETRY
    /\ wifi_retry_count \in 0..WIFI_MAX_RETRY
    /\ (wifi_last.ev = "WIFI_EVENT_STA_DISCONNECTED"
            /\ wifi_last.count0 >= WIFI_MAX_RETRY) =>
          (~wifi_last.connect /\ wifi_retry_count = WIFI_MAX_RETRY)

\* C9 witness: a 7th disconnect event in a row was handled with the 5
\* reconnects already spent.
C9_Witness ==
    /\ wifi_run = 7
    /\ wifi_run_connects = 5
    /\ wifi_last.ev = "WIFI_EVENT_STA_DISCONNECTED" /\ ~wifi_last.connect

(***************************************************************************)
(* examples/10_battery_adc                                                 *)
(***************************************************************************)
ADC_SAMPLES == 500
BATTERY_V_MAX == 2500
BATTERY_V_MIN == 2250

\* C integer division (truncation toward zero).
CDiv(a, b) ==
    IF (a >= 0) = (b > 0) \/ a = 0
    THEN (IF a >= 0 THEN a ELSE -a) \div (IF b >= 0 THEN b ELSE -b)
    ELSE -((IF a >= 0 THEN a ELSE -a) \div (IF b >= 0 THEN b ELSE -b))

\* A value stored into a 32-bit int. The model's integers are 32 bits wide
\* as well and the model checker stops with an error when an operation leaves
\* that range, so a value that reaches this point is the value C computes.
Int32(x) == x

\* The raw values adc_oneshot_read can deliver (12 bit); the ones listed
\* surround the raw values that the fallback scale maps to 2250, 2375 and
\* 2500 mV.
RawInputs == {0, 1, 2792, 2793, 2947, 2948, 3102, 3103, 4095}
\* How many of the ADC_SAMPLES reads deliver the first of two raw values.
SplitInputs == {0, 1, 250, 499, 500}
\* What adc_cali_raw_to_voltage can write into voltage_mv.
VoltInputs ==
    ((BATTERY_V_MIN - VoltMargin)..(BATTERY_V_MAX + VoltMargin))
        \cup {-2147483647 - 1, -1, 0, 2147483647}

\* read_battery_voltage() when k reads deliver a and the other ones b, and the
\* calibration (if there is one) converts the average to calv.
\* Mutant: the sum is divided by one less than the number of samples.
read_battery_voltage_offbyone(calibrated, a, b, k, calv) ==
    LET raw_sum == Int32(k * a + (ADC_SAMPLES - k) * b)
        raw_avg == CDiv(raw_sum, ADC_SAMPLES - 1)
        voltage_mv == IF calibrated THEN calv
                      ELSE CDiv(Int32(raw_avg * 3300), 4095)
    IN [raw_sum |-> raw_sum, raw_avg |-> raw_avg,
        raw_min |-> IF k = 0 THEN b ELSE IF k = ADC_SAMPLES THEN a
                    ELSE IF a < b THEN a ELSE b,
        raw_max |-> IF k = 0 THEN b ELSE IF k = ADC_SAMPLES THEN a
                    ELSE IF a < b THEN b ELSE a,
        voltage_mv |-> voltage_mv]

read_battery_voltage(calibrated, a, b, k, calv) ==
    LET raw_sum == Int32(k * a + (ADC_SAMPLES - k) * b)
        raw_avg == CDiv(raw_sum, ADC_SAMPLES)
        voltage_mv == IF calibrated THEN calv
                      ELSE CDiv(Int32(raw_avg * 3300), 4095)
    IN [raw_sum |-> raw_sum, raw_avg |-> raw_avg,
        raw_min |-> IF k = 0 THEN b ELSE IF k = ADC_SAMPLES THEN a
                    ELSE IF a < b THEN a ELSE b,
        raw_max |-> IF k = 0 THEN b ELSE IF k = ADC_SAMPLES THEN a
                    ELSE IF a < b THEN b ELSE a,
        voltage_mv |-> voltage_mv]

\* Mutant: the interpolation measures from the wrong end of the range.
calculate_battery_percent_inverted(voltage_mv) ==
    IF voltage_mv >= BATTERY_V_MAX THEN 100
    ELSE IF voltage_mv <= BATTERY_V_MIN THEN 0
    ELSE CDiv(Int32((BATTERY_V_MAX - voltage_mv) * 100),
              BATTERY_V_MAX - BATTERY_V_MIN)

\* Mutant: the interpolation divides by the maximum, not by the range.
calculate_battery_percent_wrongdiv(voltage_mv) ==
    IF voltage_mv >= BATTERY_V_MAX THEN 100
    ELSE IF voltage_mv <= BATTERY_V_MIN THEN 0
    ELSE CDiv(Int32((voltage_mv - BATTERY_V_MIN) * 100), BATTERY_V_MAX)

calculate_battery_percent(voltage_mv) ==
    IF voltage_mv >= BATTERY_V_MAX THEN 100
    ELSE IF voltage_mv <= BATTERY_V_MIN THEN 0
    ELSE CDiv(Int32((voltage_mv - BATTERY_V_MIN) * 100),
              BATTERY_V_MAX - BATTERY_V_MIN)

\* State when app_main() starts (the statics' initial values; the labels
\* as create_ui() sets them).
BatInit ==
    /\ bat_pc = "boot"
    /\ adc_calibrated = FALSE
    /\ current_voltage_mv = 0
    /\ current_percent = 0
    /\ bat_read = [raw_sum |-> 0, raw_avg |-> 0, raw_min |-> 0, raw_max |-> 0,
                   voltage_mv |-> 0]
    /\ bat_ui = [voltage |-> "----", percent |-> "--", bar |-> 0]

\* app_main(): init_adc() sets adc_calibrated to what init_adc_calibration()
\* returns, then the UI is created and battery_monitor_task is started.
BatteryBoot ==
    /\ bat_pc = "boot"
    /\ bat_pc' = "run"
    /\ adc_calibrated' \in BOOLEAN
    /\ UNCHANGED <<current_voltage_mv, current_percent, bat_read, bat_ui>>
    /\ OnlyBattery

\* One round of battery_monitor_task(): read, convert, update_ui().
BatteryMonitorRound(a, b, k, calv) ==
    LET r == read_battery_voltage(adc_calibrated, a, b, k, calv)
        percent == calculate_battery_percent(r.voltage_mv)
    IN /\ bat_read' = r
       /\ current_voltage_mv' = r.voltage_mv
       /\ current_percent' = percent
       /\ bat_ui' = [voltage |-> r.voltage_mv, percent |-> percent, bar |-> percent]
       /\ UNCHANGED <<bat_pc, adc_calibrated>>
       /\ OnlyBattery

\* A round with the hardware calibration curve: the voltage is what
\* adc_cali_raw_to_voltage delivers.
BatteryRoundCalibrated ==
    /\ bat_pc = "run"
    /\ adc_calibrated
    /\ \E a \in {0, 4095}, k \in {0, ADC_SAMPLES}, calv \in VoltInputs :
          BatteryMonitorRound(a, a, k, calv)

\* A round with the fallback linear scale: the voltage follows from the
\* samples.
BatteryRoundFallback ==
    /\ bat_pc = "run"
    /\ ~adc_calibrated
    /\ \E a \in RawInputs, b \in RawInputs, k \in SplitInputs :
          BatteryMonitorRound(a, b, k, 0)

BatNext == BatteryBoot \/ BatteryRoundCalibrated \/ BatteryRoundFallback

(***************************************************************************)
(* examples/10_battery_adc: properties                                     *)
(***************************************************************************)
\* C10: the percentage calculate_battery_percent computes is always within
\* 0..100, and it is monotonically non-decreasing in the voltage: of any two
\* rounds, the one with the lower (or equal) voltage has the lower (or
\* equal) percentage.
C10_PercentClampedAndMonotonic ==
    /\ [](current_percent \in 0..100)
    /\ [][/\ current_voltage_mv <= current_voltage_mv'
                => current_percent <= current_percent'
          /\ current_voltage_mv' <= current_voltage_mv
                => current_percent' <= current_percent]_vars

\* C10 witness: a round measured a voltage inside the interpolation range.
C10_Witness ==
    /\ bat_pc = "run"
    /\ current_voltage_mv = 2375
    /\ current_percent = 50

\* C11: the percentage is 0 for every voltage at or below 2250 mV, 100 for
\* every voltage at or above 2500 mV and (v - 2250) * 100 / 250 (integer
\* division) in between; so 2250 gives 0, 2375 gives 50 and 2500 gives 100.
C11_PercentMapping ==
    /\ current_voltage_mv <= 2250 => current_percent = 0
    /\ current_voltage_mv >= 2500 => current_percent = 100
    /\ (current_voltage_mv > 2250 /\ current_voltage_mv < 2500) =>
          current_percent = ((current_voltage_mv - 2250) * 100) \div 250
    /\ current_voltage_mv = 2375 => current_percent = 50

\* C11 witness: a round measured 2374 mV, which the integer division maps to
\* 49 percent.
C11_Witness ==
    /\ bat_pc = "run"
    /\ current_voltage_mv = 2374
    /\ current_percent = 49

\* C12: the average read_battery_voltage computes lies between the smallest
\* and the largest raw sample of the round, and the sum of the 500 samples
\* is the exact sum: it stays within 500 * 4095, far below the largest
\* 32-bit int.
C12_AverageWithinSamples ==
    /\ bat_read.raw_min <= bat_read.raw_avg
    /\ bat_read.raw_avg <= bat_read.raw_max
    /\ bat_read.raw_sum >= ADC_SAMPLES * bat_read.raw_min
    /\ bat_read.raw_sum <= ADC_SAMPLES * bat_read.raw_max
    /\ bat_read.raw_sum \in 0..(ADC_SAMPLES * 4095)
    /\ ADC_SAMPLES * 4095 <= 2147483647

\* C12 witness: one sample of 4095 among 499 samples of 0 (average 8).
C12_Witness ==
    /\ bat_read.raw_min = 0 /\ bat_read.raw_max = 4095
    /\ bat_read.raw_sum = 4095
    /\ bat_read.raw_avg = 8

(***************************************************************************)
(* examples/07_bluetooth: the program as functions of its state b (see     *)
(* BleState): devices, device_count, device_mutex, is_scanning, status,    *)
(* count, list are the program's globals and widgets; stack, param_pending,*)
(* start_pending, scanning the Bluetooth host stack and the controller on  *)
(* the co-processor; trace the steps of the handler being executed.        *)
(***************************************************************************)
MAX_DEVICES == 20

\* One step of a handler and what kind of step it is: "mutex" (device_mutex),
\* "list" (an access to devices[] or device_count), "lock" (display lock),
\* "widget" (a mutation of the widget tree), "init" (bringing up the
\* transport or the stack), "net" (an operation on the stack), "block",
\* "log" (an error written to the log);
\* stack is how far the co-processor side had been brought up at that step.
BStep(call, kind, stack) == [call |-> call, kind |-> kind, stack |-> stack]
Did(b, call, kind) == [b EXCEPT !.trace = Append(@, BStep(call, kind, b.stack))]

\* A zeroed ble_device_t (static storage, memset).
NoDevice == [bda |-> 0, name |-> "", rssi |-> 0, has_name |-> FALSE]

\* find_device(bda): index of the first of the device_count entries with
\* this address, -1 if there is none.
find_device(b, bda) ==
    LET hits == {i \in 0..(b.device_count - 1) : b.devices[i].bda = bda} IN
    IF hits = {} THEN -1 ELSE CHOOSE i \in hits : \A j \in hits : i <= j

\* Mutant: the list is not searched, every advertisement is appended.
add_or_update_device_nofind(b, bda, name, rssi) ==
    IF b.device_mutex = NULL THEN b
    ELSE
    LET b1 == Did(b, "xSemaphoreTake", "mutex")
        n == b1.device_count
        b2 == IF n < MAX_DEVICES
              THEN [Did(Did(b1, "devices[device_count] =", "list"),
                        "device_count++", "list") EXCEPT
                      !.devices[n] = [bda |-> bda, name |-> name, rssi |-> rssi,
                                      has_name |-> name # ""],
                      !.device_count = n + 1]
              ELSE b1
    IN Did(b2, "xSemaphoreGive", "mutex")

\* add_or_update_device(bda, name, rssi)
add_or_update_device(b, bda, name, rssi) ==
    IF b.device_mutex = NULL THEN b
    ELSE
    LET b1 == Did(Did(b, "xSemaphoreTake", "mutex"), "find_device", "list")
        idx == find_device(b1, bda)
        n == b1.device_count
        b2 == IF idx >= 0
              THEN [Did(b1, "devices[idx] =", "list") EXCEPT
                      !.devices[idx].rssi = rssi,
                      !.devices[idx].name =
                          IF name # "" /\ ~b1.devices[idx].has_name
                          THEN name ELSE @,
                      !.devices[idx].has_name =
                          IF name # "" /\ ~b1.devices[idx].has_name
                          THEN TRUE ELSE @]
              ELSE IF n < MAX_DEVICES
              THEN [Did(Did(b1, "devices[device_count] =", "list"),
                        "device_count++", "list") EXCEPT
                      !.devices[n] = [bda |-> bda, name |-> name, rssi |-> rssi,
                                      has_name |-> name # ""],
                      !.device_count = n + 1]
              ELSE b1
    IN Did(b2, "xSemaphoreGive", "mutex")

\* esp_ble_gap_set_scan_params(&scan_params): the host stack answers with a
\* SCAN_PARAM_SET_COMPLETE event once it is up; before that the call fails.
esp_ble_gap_set_scan_params(b) ==
    [Did(b, "esp_ble_gap_set_scan_params", "net") EXCEPT
       !.param_pending = IF b.stack = "ready" THEN @ + 1 ELSE @]

\* esp_ble_gap_start_scanning(10): answered with a SCAN_START_COMPLETE event.
esp_ble_gap_start_scanning(b) ==
    [Did(b, "esp_ble_gap_start_scanning", "net") EXCEPT
       !.start_pending = IF b.stack = "ready" THEN @ + 1 ELSE @]

\* start_ble_scan()
start_ble_scan(b) ==
    LET b1 == Did(b, "xSemaphoreTake", "mutex")
        b2 == [Did(Did(b1, "device_count = 0", "list"),
                   "memset(devices)", "list") EXCEPT
                 !.device_count = 0,
                 !.devices = [i \in 0..(MAX_DEVICES - 1) |-> NoDevice]]
    IN esp_ble_gap_set_scan_params(Did(b2, "xSemaphoreGive", "mutex"))

BleLock(b) == Did(b, "bsp_display_lock", "lock")
BleUnlock(b) == Did(b, "bsp_display_unlock", "lock")

\* gap_event_handler(event, param); param carries status, search_evt and the
\* advertisement (bda, name, rssi).
gap_event_handler(b, event, param) ==
    CASE event = "ESP_GAP_BLE_SCAN_PARAM_SET_COMPLETE_EVT" ->
           IF param.status = "SUCCESS" THEN esp_ble_gap_start_scanning(b)
           ELSE Did(b, "ESP_LOGE", "log")
      [] event = "ESP_GAP_BLE_SCAN_START_COMPLETE_EVT" ->
           IF param.status = "SUCCESS"
           THEN BleUnlock([Did(BleLock([b EXCEPT !.is_scanning = TRUE]),
                               "lv_label_set_text(status_label)", "widget")
                             EXCEPT !.status = "Status: Scanning..."])
           ELSE Did(b, "ESP_LOGE", "log")
      [] event = "ESP_GAP_BLE_SCAN_RESULT_EVT" ->
           IF param.search_evt = "ESP_GAP_SEARCH_INQ_RES_EVT"
           THEN add_or_update_device(b, param.bda, param.name, param.rssi)
           ELSE IF param.search_evt = "ESP_GAP_SEARCH_INQ_CMPL_EVT"
           THEN LET b1 == [Did(b, "ESP_LOGI(device_count)", "list")
                             EXCEPT !.is_scanning = FALSE]
                    b2 == [Did(BleLock(b1), "lv_label_set_text(status_label)",
                               "widget") EXCEPT !.status = "Status: Scan complete"]
                    b3 == [Did(Did(b2, "device_count", "list"),
                               "lv_label_set_text_fmt(count_label)", "widget")
                             EXCEPT !.count = "Found: %d devices"]
                IN BleUnlock(b3)
           ELSE b
      [] event = "ESP_GAP_BLE_SCAN_STOP_COMPLETE_EVT" ->
           IF param.status = "SUCCESS" THEN [b EXCEPT !.is_scanning = FALSE]
           ELSE b
      [] OTHER -> b

\* update_device_list(): device_list and device_mutex are non-NULL once
\* app_main() has created the mutex and the UI.
update_device_list(b) ==
    IF b.device_mutex = NULL THEN b
    ELSE
    LET b1 == Did(Did(Did(BleLock(b), "lv_obj_clean(device_list)", "widget"),
                      "xSemaphoreTake", "mutex"), "device_count", "list")
        b2 == IF b1.device_count = 0
              THEN [Did(b1, "lv_label_create(device_list)", "widget") EXCEPT
                      !.list = "No devices found"]
              ELSE [Did(Did(Did(b1, "devices[i]", "list"),
                            "lv_obj_create(device_list)", "widget"),
                        "lv_label_set_text_fmt(count_label)", "widget") EXCEPT
                      !.list = "one item per device",
                      !.count = "Found: %d devices"]
    IN BleUnlock(Did(b2, "xSemaphoreGive", "mutex"))

\* scan_btn_click_cb(e)
ble_scan_btn_click_cb(b) ==
    IF b.is_scanning THEN b
    ELSE LET b1 == Did(b, "lv_obj_add_state(scan_btn)", "widget")
             b2 == Did(start_ble_scan(b1), "vTaskDelay", "block")
         IN Did(b2, "lv_obj_clear_state(scan_btn)", "widget")

\* refresh_btn_click_cb(e)
refresh_btn_click_cb(b) == update_device_list(b)

\* The handle xSemaphoreCreateMutex() returns on success.
MUTEX == 1

BleInitResults == {"ESP_OK", "bluedroid_init", "bluedroid_enable",
                   "gap_register_callback"}

\* ble_init(): want names the call that fails (ESP_OK: none does). The stack
\* delivers GAP events once all three calls have succeeded.
ble_init(b, want) ==
    LET b1 == Did(b, "esp_bluedroid_init", "init")
        b2 == Did(b1, "esp_bluedroid_enable", "init")
        b3 == Did(b2, "esp_ble_gap_register_callback", "init")
    IN IF want = "bluedroid_init" THEN b1
       ELSE IF want = "bluedroid_enable" THEN b2
       ELSE IF want = "gap_register_callback" THEN b3
       ELSE [b3 EXCEPT !.stack = "ready"]

\* app_main() up to the call of esp_hosted_init().
ble_app_main_start(b, mutexOk, dispOk) ==
    IF ~mutexOk THEN [b EXCEPT !.pc = "returned"]
    ELSE IF ~dispOk THEN [b EXCEPT !.pc = "returned", !.device_mutex = MUTEX]
    ELSE LET b1 == [Did(BleLock(b), "create_ui", "widget") EXCEPT
                      !.device_mutex = MUTEX,
                      !.status = "Status: Ready",
                      !.count = "Found: 0 devices",
                      !.list = "Press Scan to find BLE devices"]
         IN [Did(BleUnlock(b1), "esp_hosted_init", "init") EXCEPT
               !.pc = "esp_hosted_init"]

\* app_main() from the return of esp_hosted_init() to the settle delay.
ble_app_main_hosted(b, ret) ==
    IF ret # ESP_OK
    THEN LET b1 == [Did(BleLock(b), "lv_label_set_text(status_label)", "widget")
                      EXCEPT !.status = "ESP-HOSTED init failed!"]
         IN [BleUnlock(b1) EXCEPT !.pc = "returned_hosted_failed"]
    ELSE [Did(b, "vTaskDelay", "block") EXCEPT !.stack = "transport",
                                               !.pc = "settle"]

\* app_main() from the end of the settle delay: ble_init() and its report.
ble_app_main_ble_init(b, want) ==
    LET b1 == ble_init(b, want)
        b2 == Did(BleLock(b1), "lv_label_set_text(status_label)", "widget")
    IN IF want # ESP_OK
       THEN [Did(BleUnlock(b2), "vTaskDelay", "block") EXCEPT
               !.status = "BLE init failed!", !.pc = "loop"]
       ELSE [Did(BleUnlock(b2), "vTaskDelay", "block") EXCEPT
               !.status = "Status: Ready to scan", !.pc = "initial_scan"]

\* app_main(): the initial scan, then the first delay of the main loop.
ble_app_main_initial_scan(b) ==
    [Did(start_ble_scan(b), "vTaskDelay", "block") EXCEPT !.pc = "loop"]

\* app_main(): one round of the main loop.
ble_app_main_loop(b) ==
    LET b1 == IF ~b.is_scanning THEN update_device_list(b) ELSE b
    IN Did(Did(b1, "ESP_LOGI(device_count)", "list"), "vTaskDelay", "block")

BleState ==
    [pc |-> ble_pc, devices |-> devices, device_count |-> device_count,
     device_mutex |-> device_mutex, is_scanning |-> is_scanning,
     status |-> ble_status_label, count |-> count_label, list |-> device_list,
     stack |-> bt_stack, param_pending |-> bt_param_pending,
     start_pending |-> bt_start_pending, scanning |-> bt_scanning,
     trace |-> ble_trace]

NoAdv == [bda |-> 0, name |-> "", rssi |-> 0]

\* The state a handler starts from, and the record of the handler.
BleEnter == [BleState EXCEPT !.trace = <<>>]

BleSet(b, task, handler, adv) ==
    /\ ble_pc' = b.pc
    /\ devices' = b.devices
    /\ device_count' = b.device_count
    /\ device_mutex' = b.device_mutex
    /\ is_scanning' = b.is_scanning
    /\ ble_status_label' = b.status
    /\ count_label' = b.count
    /\ device_list' = b.list
    /\ bt_stack' = b.stack
    /\ bt_param_pending' = b.param_pending
    /\ bt_start_pending' = b.start_pending
    /\ bt_scanning' = b.scanning
    /\ ble_trace' = b.trace
    /\ ble_last' = [task |-> task, handler |-> handler, adv |-> adv]

\* State at reset, before app_main() runs.
BleInit ==
    /\ ble_pc = "reset"
    /\ devices = [i \in 0..(MAX_DEVICES - 1) |-> NoDevice]
    /\ device_count = 0
    /\ device_mutex = NULL
    /\ is_scanning = FALSE
    /\ ble_status_label = ""
    /\ count_label = ""
    /\ device_list = ""
    /\ bt_stack = "off"
    /\ bt_param_pending = 0
    /\ bt_start_pending = 0
    /\ bt_scanning = FALSE
    /\ ble_trace = <<>>
    /\ ble_last = [task |-> "-", handler |-> "-", adv |-> NoAdv]

\* The widgets exist, and the LVGL task delivers taps, from create_ui() on;
\* the LVGL task keeps running when app_main() has returned.
BleUiCreated == ble_pc \notin {"reset", "returned"}

\* Advertisements, from MAX_DEVICES + 1 devices with the addresses
\* 1 .. MAX_DEVICES + 1. Device 1 advertises with two signal strengths and
\* with no name or one of two names. The others advertise without a name:
\* the devices 2 .. MAX_DEVICES - 1 are reported back to back (BleScanBurst),
\* then device MAX_DEVICES, then device MAX_DEVICES + 1.
BlePresent(a) == \E i \in 0..(device_count - 1) : devices[i].bda = a

Unnamed(a) == [bda |-> a, name |-> "", rssi |-> -70]

BleAdvInputs ==
    {[bda |-> 1, name |-> n, rssi |-> r] : n \in {"", "A", "B"}, r \in {-40, -80}}
    \cup
    {Unnamed(a) : a \in {x \in {MAX_DEVICES, MAX_DEVICES + 1} : BlePresent(x - 1)}}

BtStatus == {"SUCCESS", "FAIL"}
Param(status, search_evt, adv) ==
    [status |-> status, search_evt |-> search_evt, bda |-> adv.bda,
     name |-> adv.name, rssi |-> adv.rssi]

\* The board holds one firmware image: this one, if no other has started.
BleAppMainStart ==
    /\ ble_pc = "reset"
    /\ scan_pc = "reset"
    /\ \E mutexOk \in BOOLEAN, dispOk \in BOOLEAN :
          BleSet(ble_app_main_start(BleEnter, mutexOk, dispOk),
                 "main", "app_main", NoAdv)
    /\ OnlyBle

\* esp_hosted_init() returns.
BleHostedInitReturns ==
    /\ ble_pc = "esp_hosted_init"
    /\ \E ret \in {"ESP_OK", "ESP_FAIL"} :
          BleSet(ble_app_main_hosted(BleEnter, ret), "main", "app_main", NoAdv)
    /\ OnlyBle

\* The settle delay is over.
BleSettleElapsed ==
    /\ ble_pc = "settle"
    /\ \E want \in BleInitResults :
          BleSet(ble_app_main_ble_init(BleEnter, want), "main", "app_main", NoAdv)
    /\ OnlyBle

BleInitialScan ==
    /\ ble_pc = "initial_scan"
    /\ BleSet(ble_app_main_initial_scan(BleEnter), "main", "app_main", NoAdv)
    /\ OnlyBle

BleMainLoop ==
    /\ ble_pc = "loop"
    /\ BleSet(ble_app_main_loop(BleEnter), "main", "app_main loop", NoAdv)
    /\ OnlyBle

\* The user taps Scan.
BleScanClick ==
    /\ BleUiCreated
    /\ bt_param_pending + bt_start_pending < MaxPending
    /\ BleSet(ble_scan_btn_click_cb(BleEnter), "lvgl", "scan_btn_click_cb", NoAdv)
    /\ OnlyBle

\* The user taps Refresh.
BleRefreshClick ==
    /\ BleUiCreated
    /\ BleSet(refresh_btn_click_cb(BleEnter), "lvgl", "refresh_btn_click_cb", NoAdv)
    /\ OnlyBle

\* The stack answers esp_ble_gap_set_scan_params.
BleParamSetComplete ==
    /\ bt_param_pending > 0
    /\ \E status \in BtStatus :
          BleSet(gap_event_handler(
                     [BleEnter EXCEPT !.param_pending = @ - 1],
                     "ESP_GAP_BLE_SCAN_PARAM_SET_COMPLETE_EVT",
                     Param(status, "-", NoAdv)),
                 "bt", "SCAN_PARAM_SET_COMPLETE", NoAdv)
    /\ OnlyBle

\* The stack answers esp_ble_gap_start_scanning: a controller that is
\* scanning already refuses to start.
BleScanStartComplete ==
    /\ bt_start_pending > 0
    /\ \E status \in (IF bt_scanning THEN {"FAIL"} ELSE BtStatus) :
          BleSet(gap_event_handler(
                     [BleEnter EXCEPT !.start_pending = @ - 1,
                                      !.scanning = @ \/ status = "SUCCESS"],
                     "ESP_GAP_BLE_SCAN_START_COMPLETE_EVT",
                     Param(status, "-", NoAdv)),
                 "bt", "SCAN_START_COMPLETE", NoAdv)
    /\ OnlyBle

\* The controller reports an advertisement.
BleScanResult ==
    /\ bt_scanning
    /\ \E adv \in BleAdvInputs :
          BleSet(gap_event_handler(BleEnter, "ESP_GAP_BLE_SCAN_RESULT_EVT",
                                   Param("SUCCESS", "ESP_GAP_SEARCH_INQ_RES_EVT", adv)),
                 "bt", "INQ_RES", adv)
    /\ OnlyBle

\* The controller reports the advertisements of the devices first .. last
\* back to back: the Bluetooth task runs the handler once for each of them
\* before another task runs.
RECURSIVE BleBurst(_, _, _)
BleBurst(b, first, last) ==
    IF first > last THEN b
    ELSE BleBurst(gap_event_handler([b EXCEPT !.trace = <<>>],
                                    "ESP_GAP_BLE_SCAN_RESULT_EVT",
                                    Param("SUCCESS", "ESP_GAP_SEARCH_INQ_RES_EVT",
                                          Unnamed(first))),
                  first + 1, last)

BleScanBurst ==
    /\ bt_scanning
    /\ ~BlePresent(2)
    /\ BleSet(BleBurst(BleEnter, 2, MAX_DEVICES - 1), "bt", "INQ_RES",
              Unnamed(MAX_DEVICES - 1))
    /\ OnlyBle

\* The 10 seconds of the scan are over.
BleScanComplete ==
    /\ bt_scanning
    /\ BleSet(gap_event_handler([BleEnter EXCEPT !.scanning = FALSE],
                                "ESP_GAP_BLE_SCAN_RESULT_EVT",
                                Param("SUCCESS", "ESP_GAP_SEARCH_INQ_CMPL_EVT", NoAdv)),
              "bt", "INQ_CMPL", NoAdv)
    /\ OnlyBle

BleNext ==
    \/ BleAppMainStart
    \/ BleHostedInitReturns
    \/ BleSettleElapsed
    \/ BleInitialScan
    \/ BleMainLoop
    \/ BleScanClick
    \/ BleRefreshClick
    \/ BleParamSetComplete
    \/ BleScanStartComplete
    \/ BleScanResult
    \/ BleScanBurst
    \/ BleScanComplete

(***************************************************************************)
(* examples/07_bluetooth: properties                                       *)
(***************************************************************************)
\* The entries of the list: the first device_count elements of devices[].
BleEntries == 0..(device_count - 1)

BleNoDuplicates ==
    \A i \in BleEntries : \A j \in BleEntries :
        devices[i].bda = devices[j].bda => i = j

\* A step that handles an advertisement of an address the list holds already:
\* the count and all other entries stay, the entry takes the new RSSI, and
\* takes the name if the advertisement has one and the entry had none.
BleUpdateStep ==
    LET adv == ble_last'.adv
        idx == CHOOSE i \in BleEntries : devices[i].bda = adv.bda
    IN (ble_last'.handler = "INQ_RES" /\ BlePresent(adv.bda)) =>
         /\ device_count' = device_count
         /\ \A i \in 0..(MAX_DEVICES - 1) : i # idx => devices'[i] = devices[i]
         /\ devices'[idx].bda = adv.bda
         /\ devices'[idx].rssi = adv.rssi
         /\ IF adv.name # "" /\ ~devices[idx].has_name
            THEN devices'[idx].name = adv.name /\ devices'[idx].has_name
            ELSE /\ devices'[idx].name = devices[idx].name
                 /\ devices'[idx].has_name = devices[idx].has_name

\* C13: the device list never holds two entries with the same address; an
\* advertisement of an address already in the list sets that entry's RSSI to
\* the advertised one and stores the advertised name if it is not empty and
\* the entry has no name yet, and adds no entry.
C13_OneEntryPerAddress == []BleNoDuplicates /\ [][BleUpdateStep]_vars

\* C13 witness: device 1, listed without a name, was heard again with the
\* name "A" and another RSSI: one entry, with that RSSI and that name.
C13_Witness ==
    /\ ble_last.handler = "INQ_RES"
    /\ ble_last.adv = [bda |-> 1, name |-> "A", rssi |-> -80]
    /\ \E k \in 1..Len(ble_trace) : ble_trace[k].call = "devices[idx] ="
    /\ device_count = 1
    /\ devices[0] = [bda |-> 1, name |-> "A", rssi |-> -80, has_name |-> TRUE]

(***************************************************************************)
(* examples/04_wifi_scan: the program as functions of its state s (see     *)
(* ScanState).                                                             *)
(***************************************************************************)
MAX_SCAN_RESULTS == 20

ScanResults == {"ESP_OK", "ESP_FAIL"}
\* What esp_wifi_scan_get_ap_num can report (a uint16_t).
NumAps == {0, 1, MAX_SCAN_RESULTS, MAX_SCAN_RESULTS + 1, 65535}

ScanLock(s) == Did(s, "bsp_display_lock", "lock")
ScanUnlock(s) == Did(s, "bsp_display_unlock", "lock")

\* wifi_init_sta(): every call is wrapped in ESP_ERROR_CHECK, the function
\* returns ESP_OK or does not return.
wifi_init_sta(s) ==
    LET s1 == Did(Did(Did(s, "esp_netif_init", "init"),
                      "esp_event_loop_create_default", "init"),
                  "esp_wifi_init", "init")
        s2 == Did(Did(Did(s1, "esp_event_handler_instance_register", "init"),
                      "esp_wifi_set_mode", "init"), "esp_wifi_start", "init")
    IN [s2 EXCEPT !.stack = "ready"]

\* Mutant: the number of access points found is not limited to the array.
wifi_scan_nolimit(s, in) ==
    LET s2 == [Did(Did(s, "ap_count = 0", "results"),
                   "memset(ap_records)", "results") EXCEPT
                 !.ap_count = 0, !.ap_records = 0]
        start == IF s.stack = "ready" THEN in.start ELSE "ESP_ERR_WIFI_NOT_INIT"
        s3 == [Did(s2, "esp_wifi_scan_start", "net") EXCEPT !.ret = start]
        s4 == [Did(s3, "esp_wifi_scan_get_ap_num", "net") EXCEPT !.ret = in.num]
        s6 == [Did(s4, "esp_wifi_scan_get_ap_records", "net") EXCEPT
                 !.ret = in.rec,
                 !.ap_count = in.num_aps,
                 !.ap_records = IF in.rec = ESP_OK THEN in.num_aps ELSE @]
    IN IF s3.ret # ESP_OK THEN s3
       ELSE IF s4.ret # ESP_OK THEN s4
       ELSE s6

\* wifi_scan(): in names what the driver does: the results of the three
\* calls (start, num, rec), the number of access points found (num_aps) and
\* whether esp_wifi_scan_get_ap_records hands back one record less than asked
\* for (short). A WiFi driver that has not been started refuses the scan.
wifi_scan(s, in) ==
    LET s1 == IF s.status # ""
              THEN ScanUnlock([Did(ScanLock(s), "lv_label_set_text(status_label)",
                                   "widget") EXCEPT !.status = "Scanning..."])
              ELSE s
        s2 == [Did(Did(s1, "ap_count = 0", "results"),
                   "memset(ap_records)", "results") EXCEPT
                 !.ap_count = 0, !.ap_records = 0]
        start == IF s.stack = "ready" THEN in.start ELSE "ESP_ERR_WIFI_NOT_INIT"
        s3 == [Did(s2, "esp_wifi_scan_start", "net") EXCEPT !.ret = start]
        s4 == [Did(s3, "esp_wifi_scan_get_ap_num", "net") EXCEPT !.ret = in.num]
        limited == IF in.num_aps > MAX_SCAN_RESULTS THEN MAX_SCAN_RESULTS
                   ELSE in.num_aps
        got == IF in.short /\ limited > 0 THEN limited - 1 ELSE limited
        s5 == [Did(s4, "ap_count = min(num_aps, MAX_SCAN_RESULTS)", "results")
                 EXCEPT !.ap_count = limited]
        s6 == [Did(s5, "esp_wifi_scan_get_ap_records", "net") EXCEPT
                 !.ret = in.rec,
                 !.ap_count = IF in.rec = ESP_OK THEN got ELSE @,
                 !.ap_records = IF in.rec = ESP_OK THEN got ELSE @]
    IN IF s3.ret # ESP_OK THEN s3
       ELSE IF s4.ret # ESP_OK THEN s4
       ELSE s6

\* update_network_list(): network_list is non-NULL once create_ui() has run.
update_network_list(s) ==
    LET s1 == Did(ScanLock(s), "lv_obj_clean(network_list)", "widget")
        s2 == IF s1.ap_count = 0
              THEN [Did(s1, "lv_label_create(network_list)", "widget") EXCEPT
                      !.list = "No networks found"]
              ELSE [Did(Did(s1, "lv_obj_create(network_list)", "widget"),
                        "lv_label_set_text_fmt(status_label)", "widget") EXCEPT
                      !.list = "one item per network",
                      !.status = "Found %d networks"]
    IN ScanUnlock(s2)

\* scan_btn_click_cb(e)
scan_btn_click_cb(s, in) ==
    LET s1 == wifi_scan(Did(s, "lv_obj_add_state(scan_btn)", "widget"), in)
        s2 == IF s1.ret = ESP_OK
              THEN update_network_list(s1)
              ELSE ScanUnlock([Did(ScanLock(s1), "lv_label_set_text(status_label)",
                                   "widget") EXCEPT !.status = "Scan failed!"])
    IN Did(s2, "lv_obj_clear_state(scan_btn)", "widget")

ScanState ==
    [pc |-> scan_pc, ap_count |-> ap_count, ap_records |-> ap_records,
     status |-> scan_status_label, list |-> network_list, stack |-> scan_stack,
     trace |-> scan_trace, ret |-> "-"]

\* The state at reset, before app_main() runs: no widgets, nothing brought up.
ScanReset ==
    [pc |-> "reset", ap_count |-> 0, ap_records |-> 0, status |-> "",
     list |-> "", stack |-> "off", trace |-> <<>>, ret |-> "-"]

NoScan == [start |-> "-", num |-> "-", rec |-> "-", num_aps |-> 0,
           short |-> FALSE]

ScanInputs ==
    [start : ScanResults, num : ScanResults, rec : ScanResults,
     num_aps : NumAps, short : BOOLEAN]

ScanEnter == [ScanState EXCEPT !.trace = <<>>]

ScanSet(s, task, handler, in) ==
    /\ scan_pc' = s.pc
    /\ ap_count' = s.ap_count
    /\ ap_records' = s.ap_records
    /\ scan_status_label' = s.status
    /\ network_list' = s.list
    /\ scan_stack' = s.stack
    /\ scan_trace' = s.trace
    /\ scan_last' = [task |-> task, handler |-> handler, in |-> in,
                     ret |-> s.ret]

ScanInit ==
    /\ scan_pc = "reset"
    /\ ap_count = 0
    /\ ap_records = 0
    /\ scan_status_label = ""
    /\ network_list = ""
    /\ scan_stack = "off"
    /\ scan_trace = <<>>
    /\ scan_last = [task |-> "-", handler |-> "-", in |-> NoScan, ret |-> "-"]

\* app_main() up to the call of esp_hosted_init().
scan_app_main_start(s, dispOk) ==
    IF ~dispOk THEN [s EXCEPT !.pc = "returned"]
    ELSE LET s1 == [Did(ScanLock(s), "create_ui", "widget") EXCEPT
                      !.status = "Press Scan to find networks",
                      !.list = "Networks will appear here"]
         IN [Did(ScanUnlock(s1), "esp_hosted_init", "init") EXCEPT
               !.pc = "esp_hosted_init"]

\* app_main() from the return of esp_hosted_init() to the settle delay.
scan_app_main_hosted(s, ret) ==
    IF ret # ESP_OK
    THEN LET s1 == [Did(ScanLock(s), "lv_label_set_text(status_label)", "widget")
                      EXCEPT !.status = "ESP-HOSTED init failed!"]
         IN [ScanUnlock(s1) EXCEPT !.pc = "returned_hosted_failed"]
    ELSE [Did(s, "vTaskDelay", "block") EXCEPT !.stack = "transport",
                                               !.pc = "settle"]

\* app_main() from the end of the settle delay: wifi_init_sta() and its
\* report; a failing ESP_ERROR_CHECK aborts, and the chip restarts.
scan_app_main_wifi_init(s, abort) ==
    IF abort THEN [s EXCEPT !.pc = "abort"]
    ELSE LET s1 == [Did(ScanLock(wifi_init_sta(s)),
                        "lv_label_set_text(status_label)", "widget")
                      EXCEPT !.status = "WiFi ready - Press Scan"]
         IN [Did(ScanUnlock(s1), "vTaskDelay", "block") EXCEPT
               !.pc = "initial_scan"]

\* app_main(): the initial scan, then the first delay of the main loop.
scan_app_main_initial_scan(s, in) ==
    LET s1 == wifi_scan(s, in)
        s2 == IF s1.ret = ESP_OK THEN update_network_list(s1) ELSE s1
    IN [Did(s2, "vTaskDelay", "block") EXCEPT !.pc = "loop"]

\* The widgets exist, and the LVGL task delivers taps, from create_ui() on.
ScanUiCreated == scan_pc \notin {"reset", "returned", "abort"}

\* app_main() starts, after power-on or after the restart that follows an
\* abort. The board holds one firmware image: this one, if no other has
\* started.
ScanAppMainStart ==
    /\ scan_pc \in {"reset", "abort"}
    /\ ble_pc = "reset"
    /\ \E dispOk \in BOOLEAN :
          ScanSet(scan_app_main_start(ScanReset, dispOk), "main", "app_main",
                  NoScan)
    /\ OnlyScan

\* esp_hosted_init() returns.
ScanHostedInitReturns ==
    /\ scan_pc = "esp_hosted_init"
    /\ \E ret \in {"ESP_OK", "ESP_FAIL"} :
          ScanSet(scan_app_main_hosted(ScanEnter, ret), "main", "app_main",
                  NoScan)
    /\ OnlyScan

\* The settle delay is over.
ScanSettleElapsed ==
    /\ scan_pc = "settle"
    /\ \E abort \in BOOLEAN :
          ScanSet(scan_app_main_wifi_init(ScanEnter, abort), "main", "app_main",
                  NoScan)
    /\ OnlyScan

ScanInitialScan ==
    /\ scan_pc = "initial_scan"
    /\ \E in \in ScanInputs :
          ScanSet(scan_app_main_initial_scan(ScanEnter, in), "main",
                  "app_main", in)
    /\ OnlyScan

\* The user taps Scan.
ScanClick ==
    /\ ScanUiCreated
    /\ \E in \in ScanInputs :
          ScanSet(scan_btn_click_cb(ScanEnter, in), "lvgl", "scan_btn_click_cb",
                  in)
    /\ OnlyScan

ScanNext ==
    \/ ScanAppMainStart
    \/ ScanHostedInitReturns
    \/ ScanSettleElapsed
    \/ ScanInitialScan
    \/ ScanClick

(***************************************************************************)
(* Discovered-item lists of examples/07_bluetooth and examples/04_wifi_scan *)
(***************************************************************************)
\* The positions of the steps named call in a trace.
StepsOf(trace, call) == {k \in 1..Len(trace) : trace[k].call = call}

\* Every step named later in the trace comes after a step named earlier.
Precedes(trace, earlier, later) ==
    \A k \in StepsOf(trace, later) : \E j \in StepsOf(trace, earlier) : j < k

ListsBounded ==
    /\ device_count \in 0..20
    /\ ap_count \in 0..20
    /\ ap_records <= ap_count

\* A handler that asks for a scan has set the count to 0 before, and nothing
\* was recorded in between: the count is 0 when the request is made, and the
\* WiFi results are fetched after the reset.
ScanStartsEmpty ==
    /\ Precedes(ble_trace, "device_count = 0", "esp_ble_gap_set_scan_params")
    /\ StepsOf(ble_trace, "esp_ble_gap_set_scan_params") # {} => device_count = 0
    /\ Precedes(scan_trace, "ap_count = 0", "esp_wifi_scan_start")
    /\ Precedes(scan_trace, "esp_wifi_scan_start", "esp_wifi_scan_get_ap_records")
    /\ (scan_last.ret # ESP_OK /\ StepsOf(scan_trace, "esp_wifi_scan_start") # {})
         => (ap_count = 0 \/ scan_last.in.rec # ESP_OK)

\* A step that handles an advertisement of a new address while the list is
\* full changes neither the entries nor the count.
BleFullDropStep ==
    (/\ ble_last'.handler = "INQ_RES"
     /\ device_count = 20
     /\ ~BlePresent(ble_last'.adv.bda))
    => (devices' = devices /\ device_count' = device_count)

\* C14: device_count and ap_count never exceed 20; an advertisement of a new
\* address that arrives while the list holds 20 entries is dropped and
\* changes no entry; every scan request sets the count to 0 before anything
\* of that scan is recorded.
C14_ListsBoundedAndResetPerScan ==
    [](ListsBounded /\ ScanStartsEmpty) /\ [][BleFullDropStep]_vars

\* C14 witness: the list holds 20 devices and the advertisement of a
\* twenty-first one has just been handled.
C14_Witness ==
    /\ device_count = 20
    /\ ble_last.handler = "INQ_RES"
    /\ ~BlePresent(ble_last.adv.bda)
    /\ StepsOf(ble_trace, "find_device") # {}
    /\ StepsOf(ble_trace, "device_count++") = {}

(***************************************************************************)
(* 08 Reset Device (src/unnamed/part_005): the program as functions of its *)
(* state r (see RstState); restart tells that esp_restart() was called.    *)
(***************************************************************************)
\* The handle lv_timer_create() returns.
TIMER == 1

Label(fmt, arg) == [fmt |-> fmt, arg |-> arg]

\* Mutant: the timer callback does not look at countdown_active.
countdown_timer_cb_nocancel(r) ==
    LET value == r.value - 1
        r1 == [r EXCEPT !.value = value,
                        !.label = IF value > 0
                                  THEN Label("Resetting in %d...", value)
                                  ELSE Label("Resetting NOW!", 0)]
    IN IF value <= 0
       THEN [r1 EXCEPT !.active = FALSE, !.timer = NULL, !.restart = TRUE]
       ELSE r1

\* countdown_timer_cb(timer)
countdown_timer_cb(r) ==
    IF ~r.active THEN [r EXCEPT !.timer = NULL]
    ELSE
    LET value == r.value - 1
        r1 == [r EXCEPT !.value = value,
                        !.label = IF value > 0
                                  THEN Label("Resetting in %d...", value)
                                  ELSE Label("Resetting NOW!", 0)]
    IN IF value <= 0
       THEN [r1 EXCEPT !.active = FALSE, !.timer = NULL, !.restart = TRUE]
       ELSE r1

\* reset_btn_cb(e)
reset_btn_cb(r) ==
    [r EXCEPT !.label = Label("Resetting NOW!", 0), !.restart = TRUE]

\* delayed_reset_btn_cb(e)
delayed_reset_btn_cb(r) ==
    IF r.active
    THEN [r EXCEPT !.active = FALSE, !.value = 5,
                   !.label = Label("Countdown cancelled", 0),
                   !.btn = "Reset in 5s"]
    ELSE [r EXCEPT !.active = TRUE, !.value = 5,
                   !.label = Label("Resetting in %d...", 5),
                   !.btn = "Cancel",
                   !.timer = IF @ = NULL THEN TIMER ELSE @]

\* get_reset_reason_str(reason)
get_reset_reason_str(reason) ==
    CASE reason = "ESP_RST_UNKNOWN" -> "Unknown"
      [] reason = "ESP_RST_POWERON" -> "Power-on"
      [] reason = "ESP_RST_EXT" -> "External pin"
      [] reason = "ESP_RST_SW" -> "Software reset (esp_restart)"
      [] reason = "ESP_RST_PANIC" -> "Exception/panic"
      [] reason = "ESP_RST_INT_WDT" -> "Interrupt watchdog"
      [] reason = "ESP_RST_TASK_WDT" -> "Task watchdog"
      [] reason = "ESP_RST_WDT" -> "Other watchdog"
      [] reason = "ESP_RST_DEEPSLEEP" -> "Deep sleep wakeup"
      [] reason = "ESP_RST_BROWNOUT" -> "Brownout"
      [] reason = "ESP_RST_SDIO" -> "SDIO"
      [] OTHER -> "Unknown"

\* What esp_reset_reason() reports when the chip was not restarted by
\* esp_restart().
ResetReasons == {"ESP_RST_POWERON", "ESP_RST_EXT", "ESP_RST_BROWNOUT",
                 "ESP_RST_PANIC", "ESP_RST_USB"}

\* app_main(): reason is what esp_reset_reason() reports.
rst_app_main(r, reason, dispOk) ==
    IF ~dispOk THEN [r EXCEPT !.pc = "returned"]
    ELSE [r EXCEPT !.pc = "loop",
                   !.reason = get_reset_reason_str(reason),
                   !.label = Label("Press a button to reset", 0),
                   !.btn = "Reset in 5s"]

RstState ==
    [pc |-> rst_pc, active |-> countdown_active, value |-> countdown_value,
     timer |-> countdown_timer, label |-> countdown_label,
     btn |-> delayed_btn_label, reason |-> reason_label, restart |-> FALSE]

\* The state after a reset, before app_main() runs.
RstBoot(reason) ==
    [pc |-> "reset", active |-> FALSE, value |-> 5, timer |-> NULL,
     label |-> Label("", 0), btn |-> "", reason |-> reason, restart |-> FALSE]

\* The globals after a handler; esp_restart() resets the chip.
RstSet(r, handler) ==
    LET n == IF r.restart THEN RstBoot("") ELSE r IN
    /\ rst_pc' = n.pc
    /\ countdown_active' = n.active
    /\ countdown_value' = n.value
    /\ countdown_timer' = n.timer
    /\ countdown_label' = n.label
    /\ delayed_btn_label' = n.btn
    /\ reason_label' = n.reason
    /\ rst_ticks' = IF handler = "countdown_timer_cb" /\ countdown_active
                    THEN rst_ticks + 1
                    ELSE IF handler = "delayed_reset_btn_cb" /\ ~countdown_active
                    THEN 0
                    ELSE rst_ticks
    /\ rst_last' = [handler |-> handler, restart |-> r.restart,
                    label |-> r.label, btn |-> r.btn]

RstInit ==
    /\ rst_pc = "reset"
    /\ countdown_active = FALSE
    /\ countdown_value = 5
    /\ countdown_timer = NULL
    /\ countdown_label = Label("", 0)
    /\ delayed_btn_label = ""
    /\ reason_label = ""
    /\ rst_ticks = 0
    /\ rst_last = [handler |-> "-", restart |-> FALSE, label |-> Label("", 0),
                   btn |-> ""]

\* app_main() runs, after esp_restart() or after another reset.
RstAppMain ==
    /\ rst_pc = "reset"
    /\ \E dispOk \in BOOLEAN :
       \E reason \in (IF rst_last.restart THEN {"ESP_RST_SW"} ELSE ResetReasons) :
          RstSet(rst_app_main(RstState, reason, dispOk), "app_main")
    /\ OnlyReset

\* The user taps "Reset Now".
ResetNowClick ==
    /\ rst_pc = "loop"
    /\ RstSet(reset_btn_cb(RstState), "reset_btn_cb")
    /\ OnlyReset

\* The user taps "Reset in 5s" / "Cancel".
DelayedResetClick ==
    /\ rst_pc = "loop"
    /\ RstSet(delayed_reset_btn_cb(RstState), "delayed_reset_btn_cb")
    /\ OnlyReset

\* The 1-second LVGL timer fires.
CountdownTick ==
    /\ rst_pc = "loop"
    /\ countdown_timer # NULL
    /\ RstSet(countdown_timer_cb(RstState), "countdown_timer_cb")
    /\ OnlyReset

RstNext == RstAppMain \/ ResetNowClick \/ DelayedResetClick \/ CountdownTick

(***************************************************************************)
(* 08 Reset Device: properties                                             *)
(***************************************************************************)
\* The step is a run of this handler.
RstRuns(handler) == rst_last'.handler = handler

\* The countdown restarts the chip only from a running countdown, at the
\* fifth timer callback since the countdown was started last.
RstRestartStep ==
    (RstRuns("countdown_timer_cb") /\ rst_last'.restart)
    => (countdown_active /\ rst_ticks' = 5)

\* A timer callback that finds the countdown cancelled deletes the timer and
\* does nothing else.
RstStaleTimerStep ==
    (RstRuns("countdown_timer_cb") /\ ~countdown_active)
    => /\ ~rst_last'.restart
       /\ countdown_timer' = NULL
       /\ UNCHANGED <<countdown_active, countdown_value, countdown_label,
                      delayed_btn_label>>

\* A tap that cancels the countdown, and what the two labels show after it.
RstCancelStep(prompt) ==
    (RstRuns("delayed_reset_btn_cb") /\ countdown_active)
    => /\ ~rst_last'.restart
       /\ ~countdown_active'
       /\ countdown_value' = 5
       /\ delayed_btn_label' = "Reset in 5s"
       /\ countdown_label' = Label(prompt, 0)

Depth(trace, k, take, give) ==
    Cardinality(StepsOf(trace, take) \cap 1..(k - 1))
    - Cardinality(StepsOf(trace, give) \cap 1..(k - 1))

\* The positions of the steps of this kind in a trace.
KindSteps(trace, kind) == {k \in 1..Len(trace) : trace[k].kind = kind}

\* C16: in the WiFi scan and BLE examples no operation is issued on the
\* WiFi/BT stack unless esp_hosted_init has returned ESP_OK, the settle delay
\* is over and the stack has been initialised with its handlers registered,
\* whenever the user taps Scan.
C16_NoOperationBeforeStackReady ==
    /\ \A k \in KindSteps(scan_trace, "net") : scan_trace[k].stack = "ready"
    /\ \A k \in KindSteps(ble_trace, "net") : ble_trace[k].stack = "ready"

\* C17: once esp_hosted_init has failed, the status label reports the
\* failure, and the example neither brings up nor uses the WiFi/BT stack.
C17_TransportFailureIsFinal ==
    /\ scan_pc = "returned_hosted_failed" =>
         /\ scan_status_label = "ESP-HOSTED init failed!"
         /\ scan_stack = "off"
         /\ KindSteps(scan_trace, "net") \cup KindSteps(scan_trace, "init") = {}
    /\ ble_pc = "returned_hosted_failed" =>
         /\ ble_status_label = "ESP-HOSTED init failed!"
         /\ bt_stack = "off"
         /\ KindSteps(ble_trace, "net") \cup KindSteps(ble_trace, "init") = {}

\* C18: every step of a handler that mutates the widget tree lies between a
\* bsp_display_lock and the matching bsp_display_unlock of that handler.
C18_WidgetsMutatedUnderDisplayLock ==
    /\ \A k \in KindSteps(scan_trace, "widget") :
          Depth(scan_trace, k, "bsp_display_lock", "bsp_display_unlock") > 0
    /\ \A k \in KindSteps(ble_trace, "widget") :
          Depth(ble_trace, k, "bsp_display_lock", "bsp_display_unlock") > 0

\* The calls of the SD card example that wait for the card or the filesystem.
SdBlockingCalls == {"ldo_new", "fs_mount", "fs_unmount", "ldo_del", "opendir",
                    "closedir", "fopen", "fclose"}

\* C19: no callback of the SD card example holds the display lock while it
\* mounts or unmounts the card or accesses a directory or a file.
C19_NoBlockingCallUnderDisplayLock ==
    \A k \in 1..Len(sd_trace) :
        sd_trace[k].call \in SdBlockingCalls =>
            Depth(sd_trace, k, "bsp_display_lock", "bsp_display_unlock") = 0

\* C20: every step of a handler that reads or writes devices[] or
\* device_count lies between xSemaphoreTake(device_mutex) and the matching
\* xSemaphoreGive.
C20_DeviceListUnderMutex ==
    \A k \in KindSteps(ble_trace, "list") :
        Depth(ble_trace, k, "xSemaphoreTake", "xSemaphoreGive") > 0

(***************************************************************************)
(* examples/06_sdcard: order of sd_unmount, mounted flag, Write Test       *)
(***************************************************************************)
\* The steps of sd_mount()/sd_unmount() in the most recent callback, in the
\* order they were executed.
RECURSIVE SdOpsFrom(_)
SdOpsFrom(i) ==
    IF i > Len(sd_trace) THEN <<>>
    ELSE IF sd_trace[i].call \in SdOpCalls
         THEN <<sd_trace[i].call>> \o SdOpsFrom(i + 1)
         ELSE SdOpsFrom(i + 1)

\* C24: sd_unmount() unmounts the filesystem first, then releases the rail
\* if the handle is not NULL, then sets the handle to NULL: no rail is
\* released before the unmount was issued, and the handle is NULL after a
\* release.
C24_UnmountStepOrder ==
    sd_env.cb = "unmount" =>
        /\ SdOpsFrom(1) = IF sd_env.handle0 # NULL
                          THEN <<"fs_unmount", "card=NULL", "ldo_del", "handle=NULL">>
                          ELSE <<"fs_unmount", "card=NULL">>
        /\ \A i \in SdCalls("ldo_del") :
              /\ sd_trace[i].arg = sd_env.handle0
              /\ \E j \in SdCalls("fs_unmount") : j < i
              /\ sd_trace[i + 1].call = "handle=NULL"
        /\ sd_pwr_ctrl_handle = NULL

\* C24 witness: an unmount that found a rail handle and released it.
C24_Witness ==
    /\ sd_env.cb = "unmount" /\ sd_env.handle0 # NULL
    /\ SdCalls("ldo_del") # {}
    /\ sd_ret = ESP_OK

\* C25: whenever sd_mounted is set the card handle sd_card is not NULL, and
\* the button reads "Unmount" exactly when sd_mounted is set.
C25_MountedImpliesCard ==
    /\ sd_mounted => sd_card # NULL
    /\ sd_mounted <=> (mount_btn_label = "Unmount")

\* A step of write_btn_click_cb taken while sd_mounted is not set.
WriteWhileUnmountedStep ==
    (sd_env'.cb = "write" /\ ~sd_mounted) =>
        /\ {i \in DOMAIN sd_trace' :
              sd_trace'[i].call \in {"fopen", "fclose", "opendir", "closedir"}} = {}
        /\ UNCHANGED <<sd_card, sd_pwr_ctrl_handle, sd_mounted, mount_btn_label,
                       file_list, ldo_live, ldo_created, ldo_deletes>>
        /\ status_label' = "Mount SD card first!"

\* C26: Write Test pressed while the card is not mounted opens and creates
\* no file, leaves sd_mounted, the card handle and the rail handle as they
\* were and only sets the status label to "Mount SD card first!"; a file is
\* opened only by a callback that found sd_mounted set.
C26_WriteNeedsMounted ==
    /\ [][WriteWhileUnmountedStep]_vars
    /\ [](SdCalls("fopen") # {} => sd_env.mounted0)

\* C26 witness: Write Test was pressed right after a mount had failed.
C26_Witness ==
    /\ sd_env.cb = "write" /\ ~sd_env.mounted0
    /\ sd_prev.cb = "mount" /\ sd_prev.ret # ESP_OK
    /\ status_label = "Mount SD card first!"

(***************************************************************************)
(* examples/07_bluetooth: scans in flight                                  *)
(***************************************************************************)
\* A scan is in flight from the request (esp_ble_gap_set_scan_params
\* accepted) until the stack has refused it or has reported its end.
BleScanInFlight == bt_param_pending + bt_start_pending > 0 \/ bt_scanning

\* The handler just executed has cleared the device list.
BleClearedList == StepsOf(ble_trace, "device_count = 0") # {}

\* C29: at most one scan is in flight: while a scan is requested and has
\* not completed, no handler executes start_ble_scan, so the device list is
\* never cleared in the middle of a scan (a Scan tap is rejected).
C29_OneScanInFlight == [][BleScanInFlight => ~BleClearedList']_vars

(***************************************************************************)
(* Failures of an operation                                                *)
(***************************************************************************)
\* The most recent handler ran wifi_scan() and the scan failed.
ScanFailed ==
    /\ StepsOf(scan_trace, "esp_wifi_scan_start") # {}
    /\ scan_last.ret # ESP_OK

\* The most recent GAP event reported that the scan parameters could not be
\* set or that the scan could not be started.
BleScanFailed ==
    /\ ble_last.handler \in {"SCAN_PARAM_SET_COMPLETE", "SCAN_START_COMPLETE"}
    /\ StepsOf(ble_trace, "ESP_LOGE") # {}

\* The texts the BLE example gives status_label when nothing has failed.
BleProgressTexts == {"Status: Ready", "Status: Ready to scan",
                     "Status: Scanning...", "Status: Scan complete"}

\* C23: a failed operation (here: a failed WiFi scan, a failed BLE scan) is
\* handled where it is detected: the status label shows a failure text, the
\* program goes on, and the handler does not issue the operation again.
C23_FailureShownNoRetry ==
    /\ ScanFailed =>
          /\ scan_status_label = "Scan failed!"
          /\ Cardinality(StepsOf(scan_trace, "esp_wifi_scan_start")) = 1
    /\ BleScanFailed =>
          /\ ble_status_label \notin BleProgressTexts
          /\ KindSteps(ble_trace, "net") = {}

(***************************************************************************)
(* examples/12_rs485_serial: rs485_task ("worker", priority 5) and the     *)
(* LVGL task ("ui", which runs the button callbacks), one step per access  *)
(* to what the two tasks share: the counters, ui_mutex, the display lock.  *)
(* rx_count and tx_count are plain ints, so a += of one task is a read and *)
(* a later write, and the other task can run in between.                   *)
(***************************************************************************)
RsTasks == {"worker", "ui"}

\* uart_write_bytes(): -1 on a failure, else the number of bytes queued.
UartWrites == {-1, 1}
\* uart_read_bytes(): -1 on a failure, 0 on a timeout, else the bytes read.
UartReads == {-1, 0, 1}

RsGoto(t, pc) == rs_pc' = [rs_pc EXCEPT ![t] = pc]

\* A call: run the function at pc, then continue with cont.
RsCall(t, pc, cont) ==
    /\ rs_pc' = [rs_pc EXCEPT ![t] = pc]
    /\ rs_ret' = [rs_ret EXCEPT ![t] = cont]

\* A return: continue where the caller said.
RsReturn(t) ==
    /\ rs_pc' = [rs_pc EXCEPT ![t] = Head(rs_ret[t])]
    /\ rs_ret' = [rs_ret EXCEPT ![t] = Tail(@)]

NoLocal == [n |-> 0, reg |-> 0]

\* Variant: the wait has no timeout (portMAX_DELAY).
xSemaphoreTake_forever(holder, t) ==
    IF holder = "none" THEN {"pdTRUE"} ELSE {}

\* xSemaphoreTake(ui_mutex, pdMS_TO_TICKS(100)) by task t: the mutex is taken
\* if it is free; if another task holds it for the 100 ms, the call gives up.
xSemaphoreTake(holder, t) ==
    IF holder = "none" THEN {"pdTRUE"} ELSE {"pdFALSE"}

\* bsp_display_lock(0) waits without a timeout; the lock is recursive.
DispFreeFor(t) == disp_lock.owner \in {"none", t}
bsp_display_lock(t) ==
    /\ DispFreeFor(t)
    /\ disp_lock' = [owner |-> t, depth |-> disp_lock.depth + 1]
bsp_display_unlock(t) ==
    disp_lock' = IF disp_lock.depth = 1 THEN [owner |-> "none", depth |-> 0]
                 ELSE [disp_lock EXCEPT !.depth = @ - 1]

\* ---- rs485_send(data, len) ----
\* int sent = uart_write_bytes(...); if (sent > 0) ...
rs485_send_write(t) ==
    /\ rs_pc[t] = "rs485_send"
    /\ \E sent \in {s \in UartWrites :
                      s > 0 => /\ rs_total.tx + s <= MaxBytes
                               /\ tx_count + s <= MaxBytes} :
          /\ rs_total' = [rs_total EXCEPT !.tx = IF sent > 0 THEN @ + sent ELSE @]
          /\ IF sent > 0
             THEN /\ rs_local' = [rs_local EXCEPT ![t].n = sent]
                  /\ RsGoto(t, "tx_count +=")
                  /\ UNCHANGED rs_ret
             ELSE /\ RsReturn(t)
                  /\ UNCHANGED rs_local
    /\ UNCHANGED <<echo_mode, rx_count, tx_count, ui_mutex, disp_lock,
                   rs_status_label, rs_port>>
    /\ OnlyRs485

\* tx_count += sent: the read of tx_count
rs485_send_load(t) ==
    /\ rs_pc[t] = "tx_count +="
    /\ rs_local' = [rs_local EXCEPT ![t].reg = tx_count]
    /\ RsGoto(t, "tx_count =")
    /\ UNCHANGED <<rs_ret, echo_mode, rx_count, tx_count, ui_mutex, disp_lock,
                   rs_status_label, rs_port, rs_total>>
    /\ OnlyRs485

\* tx_count += sent: the write of tx_count, and the return
rs485_send_store(t) ==
    /\ rs_pc[t] = "tx_count ="
    /\ tx_count' = rs_local[t].reg + rs_local[t].n
    /\ rs_local' = [rs_local EXCEPT ![t] = NoLocal]
    /\ RsReturn(t)
    /\ UNCHANGED <<echo_mode, rx_count, ui_mutex, disp_lock, rs_status_label,
                   rs_port, rs_total>>
    /\ OnlyRs485

\* ---- update_ui_data(rx_data, tx_data) ----
update_ui_data_take(t) ==
    /\ rs_pc[t] = "update_ui_data"
    /\ \E got \in xSemaphoreTake(ui_mutex, t) :
          IF got = "pdTRUE"
          THEN /\ ui_mutex' = t
               /\ RsGoto(t, "bsp_display_lock")
               /\ UNCHANGED rs_ret
          ELSE /\ RsReturn(t)
               /\ UNCHANGED ui_mutex
    /\ UNCHANGED <<rs_local, echo_mode, rx_count, tx_count, disp_lock,
                   rs_status_label, rs_port, rs_total>>
    /\ OnlyRs485

update_ui_data_lock(t) ==
    /\ rs_pc[t] = "bsp_display_lock"
    /\ bsp_display_lock(t)
    /\ RsGoto(t, "lv_label_set_text_fmt")
    /\ UNCHANGED <<rs_ret, rs_local, echo_mode, rx_count, tx_count, ui_mutex,
                   rs_status_label, rs_port, rs_total>>
    /\ OnlyRs485

\* the text areas take the new line, status_label the two counters
update_ui_data_widgets(t) ==
    /\ rs_pc[t] = "lv_label_set_text_fmt"
    /\ rs_status_label' = [rs_status_label EXCEPT
                             !.status = "RX: %d bytes | TX: %d bytes"]
    /\ RsGoto(t, "bsp_display_unlock")
    /\ UNCHANGED <<rs_ret, rs_local, echo_mode, rx_count, tx_count, ui_mutex,
                   disp_lock, rs_port, rs_total>>
    /\ OnlyRs485

update_ui_data_unlock(t) ==
    /\ rs_pc[t] = "bsp_display_unlock"
    /\ bsp_display_unlock(t)
    /\ RsGoto(t, "xSemaphoreGive")
    /\ UNCHANGED <<rs_ret, rs_local, echo_mode, rx_count, tx_count, ui_mutex,
                   rs_status_label, rs_port, rs_total>>
    /\ OnlyRs485

update_ui_data_give(t) ==
    /\ rs_pc[t] = "xSemaphoreGive"
    /\ ui_mutex' = "none"
    /\ RsReturn(t)
    /\ UNCHANGED <<rs_local, echo_mode, rx_count, tx_count, disp_lock,
                   rs_status_label, rs_port, rs_total>>
    /\ OnlyRs485

\* ---- rs485_task(arg) ----
\* the two malloc(); the task deletes itself if one fails, else it sends
\* the initial message
rs485_task_start ==
    /\ rs_pc["main"] = "loop"
    /\ rs_pc["worker"] = "start"
    /\ \E ok \in BOOLEAN :
          IF ok THEN RsCall("worker", "rs485_send", <<"while">>)
          ELSE RsGoto("worker", "deleted") /\ UNCHANGED rs_ret
    /\ UNCHANGED <<rs_local, echo_mode, rx_count, tx_count, ui_mutex, disp_lock,
                   rs_status_label, rs_port, rs_total>>
    /\ OnlyRs485

\* top of the loop: echo mode reads the UART, send mode sends a test message
rs485_task_loop ==
    /\ rs_pc["worker"] = "while"
    /\ IF echo_mode
       THEN \E len \in {l \in UartReads :
                          l > 0 => /\ rs_total.rx + l <= MaxBytes
                                   /\ rx_count + l <= MaxBytes} :
               /\ rs_total' = [rs_total EXCEPT !.rx = IF len > 0 THEN @ + len ELSE @]
               /\ IF len > 0
                  THEN /\ rs_local' = [rs_local EXCEPT !["worker"].n = len]
                       /\ RsGoto("worker", "rx_count +=")
                  ELSE /\ RsGoto("worker", "vTaskDelay")
                       /\ UNCHANGED rs_local
               /\ UNCHANGED rs_ret
       ELSE /\ RsCall("worker", "rs485_send", <<"update_ui_data", "vTaskDelay">>)
            /\ UNCHANGED <<rs_local, rs_total>>
    /\ UNCHANGED <<echo_mode, rx_count, tx_count, ui_mutex, disp_lock,
                   rs_status_label, rs_port>>
    /\ OnlyRs485

\* rx_count += len: the read of rx_count
rs485_task_load ==
    /\ rs_pc["worker"] = "rx_count +="
    /\ rs_local' = [rs_local EXCEPT !["worker"].reg = rx_count]
    /\ RsGoto("worker", "rx_count =")
    /\ UNCHANGED <<rs_ret, echo_mode, rx_count, tx_count, ui_mutex, disp_lock,
                   rs_status_label, rs_port, rs_total>>
    /\ OnlyRs485

\* rx_count += len: the write of rx_count; then update_ui_data(display_str,
\* NULL), rs485_send(echo_msg), update_ui_data(NULL, "Echo sent")
rs485_task_store ==
    /\ rs_pc["worker"] = "rx_count ="
    /\ rx_count' = rs_local["worker"].reg + rs_local["worker"].n
    /\ rs_local' = [rs_local EXCEPT !["worker"] = NoLocal]
    /\ RsCall("worker", "update_ui_data",
              <<"rs485_send", "update_ui_data", "vTaskDelay">>)
    /\ UNCHANGED <<echo_mode, tx_count, ui_mutex, disp_lock, rs_status_label,
                   rs_port, rs_total>>
    /\ OnlyRs485

\* vTaskDelay() at the end of a round
rs485_task_delay ==
    /\ rs_pc["worker"] = "vTaskDelay"
    /\ RsGoto("worker", "while")
    /\ UNCHANGED <<rs_ret, rs_local, echo_mode, rx_count, tx_count, ui_mutex,
                   disp_lock, rs_status_label, rs_port, rs_total>>
    /\ OnlyRs485

\* ---- the LVGL task ----
\* The LVGL task dispatches a tap: it runs the callback, holding the display
\* lock around it if the port does so.
RsDispatch(pc, cont) ==
    /\ rs_pc["main"] = "loop"
    /\ rs_pc["ui"] = "idle"
    /\ IF rs_port THEN bsp_display_lock("ui") ELSE UNCHANGED disp_lock
    /\ RsCall("ui", pc, cont)

\* The callback returns to the LVGL task.
RsCallbackReturn ==
    /\ rs_pc["ui"] = "return"
    /\ IF rs_port THEN bsp_display_unlock("ui") ELSE UNCHANGED disp_lock
    /\ RsGoto("ui", "idle")
    /\ UNCHANGED <<rs_ret, rs_local, echo_mode, rx_count, tx_count, ui_mutex,
                   rs_status_label, rs_port, rs_total>>
    /\ OnlyRs485

\* send_btn_click_cb(e): rs485_send(msg), update_ui_data(NULL, display_str)
send_btn_click_cb ==
    /\ RsDispatch("rs485_send", <<"update_ui_data", "return">>)
    /\ UNCHANGED <<rs_local, echo_mode, rx_count, tx_count, ui_mutex,
                   rs_status_label, rs_port, rs_total>>
    /\ OnlyRs485

\* clear_btn_click_cb(e)
clear_btn_click_cb ==
    /\ RsDispatch("clear: bsp_display_lock", <<"return">>)
    /\ UNCHANGED <<rs_local, echo_mode, rx_count, tx_count, ui_mutex,
                   rs_status_label, rs_port, rs_total>>
    /\ OnlyRs485

clear_btn_click_cb_lock ==
    /\ rs_pc["ui"] = "clear: bsp_display_lock"
    /\ bsp_display_lock("ui")
    /\ RsGoto("ui", "clear: lv_textarea_set_text")
    /\ UNCHANGED <<rs_ret, rs_local, echo_mode, rx_count, tx_count, ui_mutex,
                   rs_status_label, rs_port, rs_total>>
    /\ OnlyRs485

\* both text areas are emptied, the lock is released
clear_btn_click_cb_unlock ==
    /\ rs_pc["ui"] = "clear: lv_textarea_set_text"
    /\ bsp_display_unlock("ui")
    /\ RsGoto("ui", "rx_count = 0")
    /\ UNCHANGED <<rs_ret, rs_local, echo_mode, rx_count, tx_count, ui_mutex,
                   rs_status_label, rs_port, rs_total>>
    /\ OnlyRs485

clear_btn_click_cb_rx ==
    /\ rs_pc["ui"] = "rx_count = 0"
    /\ rx_count' = 0
    /\ rs_total' = [rs_total EXCEPT !.rx = 0]
    /\ RsGoto("ui", "tx_count = 0")
    /\ UNCHANGED <<rs_ret, rs_local, echo_mode, tx_count, ui_mutex, disp_lock,
                   rs_status_label, rs_port>>
    /\ OnlyRs485

\* tx_count = 0; update_ui_data(NULL, NULL)
clear_btn_click_cb_tx ==
    /\ rs_pc["ui"] = "tx_count = 0"
    /\ tx_count' = 0
    /\ rs_total' = [rs_total EXCEPT !.tx = 0]
    /\ RsGoto("ui", "update_ui_data")
    /\ UNCHANGED <<rs_ret, rs_local, echo_mode, rx_count, ui_mutex, disp_lock,
                   rs_status_label, rs_port>>
    /\ OnlyRs485

\* mode_btn_click_cb(e): echo_mode = !echo_mode
mode_btn_click_cb ==
    /\ RsDispatch("mode: bsp_display_lock", <<"return">>)
    /\ echo_mode' = ~echo_mode
    /\ UNCHANGED <<rs_local, rx_count, tx_count, ui_mutex, rs_status_label,
                   rs_port, rs_total>>
    /\ OnlyRs485

mode_btn_click_cb_lock ==
    /\ rs_pc["ui"] = "mode: bsp_display_lock"
    /\ bsp_display_lock("ui")
    /\ RsGoto("ui", "mode: lv_label_set_text")
    /\ UNCHANGED <<rs_ret, rs_local, echo_mode, rx_count, tx_count, ui_mutex,
                   rs_status_label, rs_port, rs_total>>
    /\ OnlyRs485

\* the button takes the label of the mode, the lock is released
mode_btn_click_cb_unlock ==
    /\ rs_pc["ui"] = "mode: lv_label_set_text"
    /\ rs_status_label' = [rs_status_label EXCEPT
                             !.mode = IF echo_mode THEN "Mode: Echo" ELSE "Mode: Send"]
    /\ bsp_display_unlock("ui")
    /\ RsGoto("ui", "return")
    /\ UNCHANGED <<rs_ret, rs_local, echo_mode, rx_count, tx_count, ui_mutex,
                   rs_port, rs_total>>
    /\ OnlyRs485

\* ---- app_main() ----
\* The mutex, the UART, the display and the UI are set up, rs485_task is
\* created; app_main returns early without the mutex or the display.
\* bsp_display_start_with_config() starts the LVGL port; whether the port
\* holds the display lock while it runs a callback is decided by the BSP the
\* example is built with: both cases are modelled.
rs_app_main ==
    /\ rs_pc["main"] = "reset"
    /\ \E mutexOk \in BOOLEAN, dispOk \in BOOLEAN :
          /\ RsGoto("main", IF mutexOk /\ dispOk THEN "loop" ELSE "returned")
          /\ rs_port' \in (IF mutexOk /\ dispOk THEN BOOLEAN ELSE {FALSE})
    /\ UNCHANGED <<rs_ret, rs_local, echo_mode, rx_count, tx_count, ui_mutex,
                   disp_lock, rs_status_label, rs_total>>
    /\ OnlyRs485

RsInit ==
    /\ rs_pc = [t \in RsTasks \cup {"main"} |->
                  IF t = "main" THEN "reset" ELSE IF t = "ui" THEN "idle" ELSE "start"]
    /\ rs_ret = [t \in RsTasks |-> <<>>]
    /\ rs_local = [t \in RsTasks |-> NoLocal]
    /\ echo_mode = TRUE
    /\ rx_count = 0
    /\ tx_count = 0
    /\ ui_mutex = "none"
    /\ disp_lock = [owner |-> "none", depth |-> 0]
    /\ rs_status_label = [status |-> "RX: 0 bytes | TX: 0 bytes",
                          mode |-> "Mode: Echo"]
    /\ rs_port = FALSE
    /\ rs_total = [rx |-> 0, tx |-> 0]

\* The steps of task t that are not the arrival of a tap.
RsTaskStep(t) ==
    \/ rs485_send_write(t)
    \/ rs485_send_load(t)
    \/ rs485_send_store(t)
    \/ update_ui_data_take(t)
    \/ update_ui_data_lock(t)
    \/ update_ui_data_widgets(t)
    \/ update_ui_data_unlock(t)
    \/ update_ui_data_give(t)

RsWorkerStep ==
    \/ rs485_task_start
    \/ rs485_task_loop
    \/ rs485_task_load
    \/ rs485_task_store
    \/ rs485_task_delay

RsUiStep ==
    \/ clear_btn_click_cb_lock
    \/ clear_btn_click_cb_unlock
    \/ clear_btn_click_cb_rx
    \/ clear_btn_click_cb_tx
    \/ mode_btn_click_cb_lock
    \/ mode_btn_click_cb_unlock
    \/ RsCallbackReturn

RsTap ==
    \/ send_btn_click_cb
    \/ clear_btn_click_cb
    \/ mode_btn_click_cb

RsNext ==
    \/ rs_app_main
    \/ \E t \in RsTasks : RsTaskStep(t)
    \/ RsWorkerStep
    \/ RsUiStep
    \/ RsTap

(***************************************************************************)
(* examples/12_rs485_serial: properties                                    *)
(***************************************************************************)
\* Task t is inside update_ui_data().
InUpdateUiData(t) ==
    rs_pc[t] \in {"update_ui_data", "bsp_display_lock", "lv_label_set_text_fmt",
                  "bsp_display_unlock", "xSemaphoreGive"}

\* Task t holds ui_mutex only from the take to the give of update_ui_data().
RsMutexReleased ==
    \A t \in RsTasks :
        ui_mutex = t => rs_pc[t] \in {"bsp_display_lock", "lv_label_set_text_fmt",
                                     "bsp_display_unlock", "xSemaphoreGive"}

\* What a task holds of the display lock when it is not between a
\* bsp_display_lock and its bsp_display_unlock: nothing, but for the hold of
\* the LVGL port around a callback.
RsDisplayReleased ==
    /\ disp_lock.owner = "worker" =>
          rs_pc["worker"] \in {"lv_label_set_text_fmt", "bsp_display_unlock"}
    /\ rs_pc["ui"] = "idle" => disp_lock.owner # "ui"
    /\ (disp_lock.owner = "ui" /\ disp_lock.depth > (IF rs_port THEN 1 ELSE 0)) =>
          rs_pc["ui"] \in {"lv_label_set_text_fmt", "bsp_display_unlock",
                           "clear: lv_textarea_set_text", "mode: lv_label_set_text"}

\* The program points right before a write to rx_count or tx_count.
RsCounterWrites == {"tx_count =", "rx_count =", "rx_count = 0", "tx_count = 0"}

\* No task is between moving bytes on the UART and adding them to a counter.
RsNoUpdatePending ==
    \A t \in RsTasks :
        rs_pc[t] \notin {"tx_count +=", "tx_count =", "rx_count +=", "rx_count ="}

\* The counters hold what was moved since the last Clear.
RsCountsExact ==
    RsNoUpdatePending => (tx_count = rs_total.tx /\ rx_count = rs_total.rx)

\* C21: rx_count and tx_count are written only by a task that holds
\* ui_mutex, and no update is lost: whenever no addition is under way,
\* tx_count is the number of bytes written and rx_count the number of bytes
\* received since the last Clear.
C21_CountersUnderMutexNoLostUpdate ==
    /\ \A t \in RsTasks : rs_pc[t] \in RsCounterWrites => ui_mutex = t
    /\ RsCountsExact

\* C28: in the RS485 example ui_mutex and the display lock never deadlock:
\* every call of update_ui_data by rs485_task or by a button callback
\* returns, after it updated the widgets or after it gave up on ui_mutex,
\* and a task that has returned from it holds neither lock.
C28_UpdateUiDataReturns ==
    /\ [](RsMutexReleased /\ RsDisplayReleased)
    /\ \A t \in RsTasks : InUpdateUiData(t) ~> ~InUpdateUiData(t)

\* C28 witness: rs485_task holds ui_mutex inside update_ui_data and waits for
\* the display lock, which the LVGL task holds around a callback that has
\* itself called update_ui_data and waits for ui_mutex.
C28_Witness ==
    /\ ui_mutex = "worker" /\ rs_pc["worker"] = "bsp_display_lock"
    /\ disp_lock.owner = "ui" /\ rs_pc["ui"] = "update_ui_data"

(***************************************************************************)
(* NVS initialisation, the first statements of every app_main(), as        *)
(* functions of n = [pc, ret, trace]: app_main's position, its local ret   *)
(* and the NVS calls made so far with their results.                       *)
(***************************************************************************)
NvsStep(call, res) == [call |-> call, res |-> res]

\* Results of nvs_flash_init() and of nvs_flash_erase().
NvsInitResults == {"ESP_OK", "ESP_ERR_NVS_NO_FREE_PAGES",
                   "ESP_ERR_NVS_NEW_VERSION_FOUND", "ESP_ERR_NOT_FOUND",
                   "ESP_ERR_NO_MEM"}
NvsEraseResults == {"ESP_OK", "ESP_ERR_NOT_FOUND"}

\* Variant: the flash is erased after every failure of the first attempt.
NvsNeedsErase_anyfailure(ret) == ret # ESP_OK

\* ret == ESP_ERR_NVS_NO_FREE_PAGES || ret == ESP_ERR_NVS_NEW_VERSION_FOUND
NvsNeedsErase(ret) ==
    ret \in {"ESP_ERR_NVS_NO_FREE_PAGES", "ESP_ERR_NVS_NEW_VERSION_FOUND"}

\* ESP_ERROR_CHECK(x): abort() unless x is ESP_OK
ESP_ERROR_CHECK(n, x, next) ==
    [n EXCEPT !.pc = IF x = ESP_OK THEN next ELSE "abort"]

\* esp_err_t ret = nvs_flash_init(); if (...)
nvs_first_init(n, res) ==
    [n EXCEPT !.trace = Append(@, NvsStep("nvs_flash_init", res)),
              !.ret = res,
              !.pc = IF NvsNeedsErase(res) THEN "nvs_flash_erase"
                     ELSE "ESP_ERROR_CHECK"]

\* ESP_ERROR_CHECK(nvs_flash_erase());
nvs_erase(n, res) ==
    ESP_ERROR_CHECK([n EXCEPT !.trace = Append(@, NvsStep("nvs_flash_erase", res))],
                    res, "nvs_flash_init")

\* ret = nvs_flash_init();
nvs_second_init(n, res) ==
    [n EXCEPT !.trace = Append(@, NvsStep("nvs_flash_init", res)),
              !.ret = res,
              !.pc = "ESP_ERROR_CHECK"]

\* ESP_ERROR_CHECK(ret); the rest of app_main follows
nvs_check(n) == ESP_ERROR_CHECK(n, n.ret, "NVS initialized")

NvsState == [pc |-> nvs_pc, ret |-> nvs_ret, trace |-> nvs_trace]
NvsSet(n) ==
    /\ nvs_pc' = n.pc
    /\ nvs_ret' = n.ret
    /\ nvs_trace' = n.trace
    /\ UNCHANGED nvs_boots

NvsInit ==
    /\ nvs_pc = "app_main"
    /\ nvs_ret = "-"
    /\ nvs_trace = <<>>
    /\ nvs_boots = 0

NvsFirstInit ==
    /\ nvs_pc = "app_main"
    /\ \E res \in NvsInitResults : NvsSet(nvs_first_init(NvsState, res))
    /\ OnlyNvs

NvsErase ==
    /\ nvs_pc = "nvs_flash_erase"
    /\ \E res \in NvsEraseResults : NvsSet(nvs_erase(NvsState, res))
    /\ OnlyNvs

NvsSecondInit ==
    /\ nvs_pc = "nvs_flash_init"
    /\ \E res \in NvsInitResults : NvsSet(nvs_second_init(NvsState, res))
    /\ OnlyNvs

NvsCheck ==
    /\ nvs_pc = "ESP_ERROR_CHECK"
    /\ NvsSet(nvs_check(NvsState))
    /\ OnlyNvs

\* abort() ends in a reboot, and a running board can be reset: app_main
\* starts again.
NvsReboot ==
    /\ nvs_pc \in {"abort", "NVS initialized"}
    /\ nvs_boots < MaxBoots
    /\ nvs_boots' = nvs_boots + 1
    /\ nvs_pc' = "app_main"
    /\ nvs_ret' = "-"
    /\ nvs_trace' = <<>>
    /\ OnlyNvs

NvsNext ==
    \/ NvsFirstInit
    \/ NvsErase
    \/ NvsSecondInit
    \/ NvsCheck
    \/ NvsReboot

(***************************************************************************)
(* NVS initialisation: properties                                          *)
(***************************************************************************)
NvsCalls(call) == {k \in 1..Len(nvs_trace) : nvs_trace[k].call = call}

\* C22: the flash is erased, and the initialisation tried again, once and
\* only after a first attempt that reported no free pages or a new version;
\* a failed erase or a failed last attempt aborts; app_main gets past the
\* NVS initialisation only if the last attempt returned ESP_OK.
C22_EraseAndReinitOnce ==
    /\ Len(nvs_trace) <= 3
    /\ nvs_pc # "app_main" => nvs_trace[1].call = "nvs_flash_init"
    /\ NvsCalls("nvs_flash_erase") \subseteq {2}
    /\ NvsCalls("nvs_flash_init") \subseteq {1, 3}
    /\ 2 \in NvsCalls("nvs_flash_erase") <=>
          (Len(nvs_trace) >= 1
           /\ nvs_trace[1].res \in {"ESP_ERR_NVS_NO_FREE_PAGES",
                                    "ESP_ERR_NVS_NEW_VERSION_FOUND"}
           /\ nvs_pc # "nvs_flash_erase")
    /\ 3 \in NvsCalls("nvs_flash_init") => nvs_trace[2].res = "ESP_OK"
    /\ (Len(nvs_trace) = 2 /\ nvs_trace[2].res # "ESP_OK") => nvs_pc = "abort"
    /\ nvs_pc = "NVS initialized" =>
          /\ nvs_ret = "ESP_OK"
          /\ nvs_trace[Len(nvs_trace)] = NvsStep("nvs_flash_init", "ESP_OK")
    /\ nvs_pc = "abort" => nvs_trace[Len(nvs_trace)].res # "ESP_OK"
    /\ (nvs_pc = "ESP_ERROR_CHECK" /\ nvs_ret # "ESP_OK") =>
          /\ nvs_trace[Len(nvs_trace)].res = nvs_ret
          /\ nvs_check(NvsState).pc = "abort"

\* C22 witness: no free pages, a successful erase, a successful second
\* attempt, and app_main goes on.
C22_Witness ==
    /\ nvs_pc = "NVS initialized"
    /\ nvs_trace = <<NvsStep("nvs_flash_init", "ESP_ERR_NVS_NO_FREE_PAGES"),
                     NvsStep("nvs_flash_erase", "ESP_OK"),
                     NvsStep("nvs_flash_init", "ESP_OK")>>

(***************************************************************************)
(* 05 WiFi HTTP: http_fetch() and http_event_handler(). app_main ("main")  *)
(* runs the initial fetch while the LVGL task ("lvgl") runs the Fetch      *)
(* callback; the handler runs in the task that called                      *)
(* esp_http_client_perform(). http_buffer and http_buffer_len are plain    *)
(* globals shared by the two tasks.                                        *)
(***************************************************************************)
HTTP_BUFFER_SIZE == 2048

HttpTasks == {"main", "lvgl"}

\* evt->data_len of a data event.
HttpDataLens == {0, 501, 1546, 2048}

\* int copy_len = evt->data_len; if (http_buffer_len + copy_len >=
\* HTTP_BUFFER_SIZE) copy_len = HTTP_BUFFER_SIZE - http_buffer_len - 1;
HttpCopyLen(len, data_len) ==
    IF len + data_len >= HTTP_BUFFER_SIZE THEN HTTP_BUFFER_SIZE - len - 1
    ELSE data_len

HttpGoto(t, pc) == http_pc' = [http_pc EXCEPT ![t] = pc]

\* Where a task is when http_fetch() has returned.
HttpReturn(t) == HttpGoto(t, IF t = "main" THEN "while" ELSE "idle")

\* Task t is inside http_fetch().
HttpFetching(t) ==
    http_pc[t] \in {"http_fetch", "esp_http_client_init",
                    "esp_http_client_perform", "memcpy"}

\* The station is connected: app_main went on to its initial fetch.
HttpOnline ==
    http_pc["main"] \notin {"reset", "returned", "returned_hosted_failed",
                            "while (offline)"}

\* http_fetch(): http_buffer_len = 0; memset(http_buffer, 0, ...)
http_fetch_clear(t) ==
    /\ http_pc[t] = "http_fetch"
    /\ http_buffer_len' = 0
    /\ http_nonzero' = {}
    /\ http_events' = [http_events EXCEPT ![t] = 0]
    /\ HttpGoto(t, "esp_http_client_init")
    /\ UNCHANGED <<http_local, http_oob, http_status_label>>
    /\ OnlyHttp

\* http_fetch(): esp_http_client_init(); ESP_FAIL is returned without it
http_fetch_init(t) ==
    /\ http_pc[t] = "esp_http_client_init"
    /\ \E client \in {"NULL", "client"} :
          IF client = "NULL" THEN HttpReturn(t)
          ELSE HttpGoto(t, "esp_http_client_perform")
    /\ UNCHANGED <<http_local, http_events, http_buffer_len, http_nonzero,
                   http_oob, http_status_label>>
    /\ OnlyHttp

\* http_event_handler(), HTTP_EVENT_ON_DATA: the check of the length
http_event_handler_check(t) ==
    /\ http_pc[t] = "esp_http_client_perform"
    /\ HttpOnline
    /\ http_events[t] < MaxEvents
    /\ http_events' = [http_events EXCEPT ![t] = @ + 1]
    /\ \E data_len \in HttpDataLens, chunked \in BOOLEAN :
          LET copy_len == HttpCopyLen(http_buffer_len, data_len) IN
          IF chunked \/ copy_len <= 0
          THEN UNCHANGED <<http_pc, http_local>>
          ELSE /\ http_local' = [http_local EXCEPT
                                   ![t] = [copy_len |-> copy_len,
                                           seen |-> http_buffer_len]]
               /\ HttpGoto(t, "memcpy")
    /\ UNCHANGED <<http_buffer_len, http_nonzero, http_oob, http_status_label>>
    /\ OnlyHttp

\* http_event_handler(): memcpy(http_buffer + http_buffer_len, ...);
\* http_buffer_len += copy_len; http_buffer[http_buffer_len] = 0. The
\* compiled code reads http_buffer_len again or uses the value of the check.
http_event_handler_copy(t) ==
    /\ http_pc[t] = "memcpy"
    /\ \E base \in {http_buffer_len, http_local[t].seen} :
          LET end == base + http_local[t].copy_len IN
          /\ http_nonzero' = (http_nonzero \cup (base..(end - 1))) \ {end}
          /\ http_buffer_len' = end
          /\ http_oob' = (http_oob \/ end >= HTTP_BUFFER_SIZE)
    /\ http_local' = [http_local EXCEPT ![t] = [copy_len |-> 0, seen |-> 0]]
    /\ HttpGoto(t, "esp_http_client_perform")
    /\ UNCHANGED <<http_events, http_status_label>>
    /\ OnlyHttp

\* http_fetch(): esp_http_client_perform() returns; the labels are set (a
\* response of more than 500 characters is cut and "..." appended), the
\* client is cleaned up
http_fetch_done(t) ==
    /\ http_pc[t] = "esp_http_client_perform"
    /\ \E err \in IF HttpOnline THEN {"ESP_OK", "ESP_FAIL"} ELSE {"ESP_FAIL"} :
          IF err = "ESP_OK"
          THEN /\ http_status_label' = "Status: %d OK"
               /\ http_nonzero' =
                     IF (0..500) \subseteq http_nonzero
                     THEN (http_nonzero \cup {500, 501, 502}) \ {503}
                     ELSE http_nonzero
          ELSE /\ http_status_label' = "Status: ERROR"
               /\ UNCHANGED http_nonzero
    /\ HttpReturn(t)
    /\ UNCHANGED <<http_local, http_events, http_buffer_len, http_oob>>
    /\ OnlyHttp

\* fetch_btn_click_cb(e): the status is set, http_fetch() is called
fetch_btn_click_cb ==
    /\ http_pc["main"] \notin {"reset", "returned"}
    /\ http_pc["lvgl"] = "idle"
    /\ http_status_label' = "Status: Fetching..."
    /\ HttpGoto("lvgl", "http_fetch")
    /\ UNCHANGED <<http_local, http_events, http_buffer_len, http_nonzero,
                   http_oob>>
    /\ OnlyHttp

\* app_main() up to its initial fetch: the display, the transport and the
\* connection each can fail.
http_app_main ==
    /\ http_pc["main"] = "reset"
    /\ \E got \in {"no display", "no transport", "no connection", "connected"} :
          /\ HttpGoto("main", CASE got = "no display" -> "returned"
                                 [] got = "no transport" -> "returned_hosted_failed"
                                 [] got = "no connection" -> "while (offline)"
                                 [] OTHER -> "http_fetch")
          /\ http_status_label' =
                CASE got = "no display" -> ""
                  [] got = "no transport" -> "ESP-HOSTED init failed!"
                  [] got = "no connection" -> "WiFi connection failed!"
                  [] OTHER -> "Status: Connected"
    /\ UNCHANGED <<http_local, http_events, http_buffer_len, http_nonzero,
                   http_oob>>
    /\ OnlyHttp

HttpInit ==
    /\ http_pc = [t \in HttpTasks |-> IF t = "main" THEN "reset" ELSE "idle"]
    /\ http_local = [t \in HttpTasks |-> [copy_len |-> 0, seen |-> 0]]
    /\ http_events = [t \in HttpTasks |-> 0]
    /\ http_buffer_len = 0
    /\ http_nonzero = {}
    /\ http_oob = FALSE
    /\ http_status_label = ""

HttpTaskStep(t) ==
    \/ http_fetch_clear(t)
    \/ http_fetch_init(t)
    \/ http_event_handler_check(t)
    \/ http_event_handler_copy(t)
    \/ http_fetch_done(t)

HttpNext ==
    \/ http_app_main
    \/ fetch_btn_click_cb
    \/ \E t \in HttpTasks : HttpTaskStep(t)

(***************************************************************************)
(* 05 WiFi HTTP: properties of the response buffer                         *)
(***************************************************************************)
\* C30: the response buffer never overflows: http_buffer_len stays within
\* 0 .. HTTP_BUFFER_SIZE - 1, no byte is written behind the array (what
\* does not fit is dropped), the byte at index http_buffer_len is NUL, and
\* a fetch that is about to receive its first data has an empty buffer of
\* length 0.
C30_BufferNeverOverflows ==
    /\ http_buffer_len \in 0..(HTTP_BUFFER_SIZE - 1)
    /\ http_nonzero \subseteq 0..(HTTP_BUFFER_SIZE - 1)
    /\ ~http_oob
    /\ http_buffer_len \notin http_nonzero
    /\ \A t \in HttpTasks :
          (http_pc[t] = "esp_http_client_init"
           /\ \A u \in HttpTasks \ {t} : ~HttpFetching(u)) =>
              (http_buffer_len = 0 /\ http_nonzero = {})

(***************************************************************************)
(* MP3 player: auto_play_task ("auto") advances the track when the player  *)
(* has given playback_semaphore; the button callbacks run in the LVGL task *)
(* ("ui"). current_track, total_tracks and is_playing are plain globals;   *)
(* every read and every write of them is a step of its own. A callback     *)
(* runs under the display lock of the LVGL task, so update_ui() of         *)
(* auto_play_task waits until the callback has returned.                   *)
(***************************************************************************)
AuGoto(t, pc) == au_pc' = [au_pc EXCEPT ![t] = pc]

AuLoad(t) == au_local' = [au_local EXCEPT ![t] = current_track]

\* What follows update_ui() in task t.
AuAfterUi(t) == IF t = "auto" THEN "xSemaphoreTake" ELSE "idle"

\* audio_player_callback(ctx), AUDIO_PLAYER_CALLBACK_EVENT_IDLE: the player
\* has finished or was stopped; it runs in the task of the player
audio_player_callback ==
    /\ au_player = "playing"
    /\ au_player' = "idle"
    /\ is_playing' = FALSE
    /\ playback_semaphore' = 1
    /\ UNCHANGED <<au_pc, au_local, total_tracks, current_track,
                   au_play_index, au_show_index>>
    /\ OnlyAudio

\* play_current_track() in task t
play_current_track(t) ==
    /\ au_pc[t] = "play_current_track"
    /\ IF total_tracks = 0
       THEN UNCHANGED <<is_playing, au_player, au_play_index>>
       ELSE /\ au_play_index' = current_track
            /\ \E ret \in {"ESP_OK", "ESP_FAIL"} :
                  /\ is_playing' = (ret = "ESP_OK")
                  /\ au_player' = IF ret = "ESP_OK" THEN "playing" ELSE au_player
    /\ AuGoto(t, "update_ui")
    /\ UNCHANGED <<au_local, total_tracks, current_track, playback_semaphore,
                   au_show_index>>
    /\ OnlyAudio

\* update_ui() in task t
update_ui(t) ==
    /\ au_pc[t] = "update_ui"
    /\ t = "auto" => au_pc["ui"] = "idle"
    /\ au_show_index' = IF total_tracks > 0 THEN current_track ELSE au_show_index
    /\ AuGoto(t, AuAfterUi(t))
    /\ UNCHANGED <<au_local, total_tracks, current_track, is_playing,
                   playback_semaphore, au_player, au_play_index>>
    /\ OnlyAudio

\* auto_play_task: xSemaphoreTake(playback_semaphore, portMAX_DELAY)
auto_play_task_take ==
    /\ au_pc["auto"] = "xSemaphoreTake"
    /\ playback_semaphore = 1
    /\ playback_semaphore' = 0
    /\ AuGoto("auto", IF total_tracks > 0 THEN "vTaskDelay" ELSE "xSemaphoreTake")
    /\ UNCHANGED <<au_local, total_tracks, current_track, is_playing,
                   au_player, au_play_index, au_show_index>>
    /\ OnlyAudio

\* auto_play_task: vTaskDelay(500 ms), then the load of current_track++
auto_play_task_load ==
    /\ au_pc["auto"] = "vTaskDelay"
    /\ AuLoad("auto")
    /\ AuGoto("auto", "current_track++")
    /\ UNCHANGED <<total_tracks, current_track, is_playing,
                   playback_semaphore, au_player, au_play_index, au_show_index>>
    /\ OnlyAudio

\* auto_play_task: the store of current_track++
auto_play_task_store ==
    /\ au_pc["auto"] = "current_track++"
    /\ current_track' = au_local["auto"] + 1
    /\ AuGoto("auto", "if (current_track >= total_tracks)")
    /\ UNCHANGED <<au_local, total_tracks, is_playing,
                   playback_semaphore, au_player, au_play_index, au_show_index>>
    /\ OnlyAudio

\* auto_play_task: if (current_track >= total_tracks) current_track = 0
auto_play_task_wrap ==
    /\ au_pc["auto"] = "if (current_track >= total_tracks)"
    /\ current_track' = IF current_track >= total_tracks THEN 0 ELSE current_track
    /\ AuGoto("auto", "play_current_track")
    /\ UNCHANGED <<au_local, total_tracks, is_playing,
                   playback_semaphore, au_player, au_play_index, au_show_index>>
    /\ OnlyAudio

\* next_btn_click_cb(e) and prev_btn_click_cb(e): the test of total_tracks
\* and the load of current_track
step_btn_click_cb(btn) ==
    /\ au_pc["main"] = "while"
    /\ au_pc["ui"] = "idle"
    /\ total_tracks # 0
    /\ AuLoad("ui")
    /\ AuGoto("ui", btn)
    /\ UNCHANGED <<total_tracks, current_track, is_playing,
                   playback_semaphore, au_player, au_play_index, au_show_index>>
    /\ OnlyAudio

\* next_btn_click_cb: current_track++ below the last track, else 0
NextTrack(cur) == IF cur < total_tracks - 1 THEN cur + 1 ELSE 0

\* prev_btn_click_cb: current_track-- above 0, else total_tracks - 1
PrevTrack(cur) == IF cur > 0 THEN cur - 1 ELSE total_tracks - 1

\* next_btn_click_cb(e), prev_btn_click_cb(e): the store to current_track;
\* play_current_track() is called if is_playing
step_btn_click_cb_store ==
    /\ au_pc["ui"] \in {"next_btn_click_cb", "prev_btn_click_cb"}
    /\ current_track' = IF au_pc["ui"] = "next_btn_click_cb"
                        THEN NextTrack(au_local["ui"])
                        ELSE PrevTrack(au_local["ui"])
    /\ AuGoto("ui", IF is_playing THEN "play_current_track" ELSE "update_ui")
    /\ UNCHANGED <<au_local, total_tracks, is_playing,
                   playback_semaphore, au_player, au_play_index, au_show_index>>
    /\ OnlyAudio

\* track_list_click_cb(e): idx is the index of the list button
track_list_click_cb ==
    /\ au_pc["main"] = "while"
    /\ au_pc["ui"] = "idle"
    /\ \E idx \in 0..(total_tracks - 1) :
          /\ idx < total_tracks
          /\ current_track' = idx
    /\ AuGoto("ui", "play_current_track")
    /\ UNCHANGED <<au_local, total_tracks, is_playing,
                   playback_semaphore, au_player, au_play_index, au_show_index>>
    /\ OnlyAudio

\* play_btn_click_cb(e): pause while playing, else play_current_track()
play_btn_click_cb ==
    /\ au_pc["main"] = "while"
    /\ au_pc["ui"] = "idle"
    /\ IF is_playing
       THEN /\ is_playing' = FALSE
            /\ AuGoto("ui", "update_ui")
       ELSE /\ UNCHANGED is_playing
            /\ AuGoto("ui", "play_current_track")
    /\ UNCHANGED <<au_local, total_tracks, current_track,
                   playback_semaphore, au_player, au_play_index, au_show_index>>
    /\ OnlyAudio

\* app_main(): the tracks of the music directory are counted, update_ui()
\* is called, auto_play_task is created
au_app_main ==
    /\ au_pc["main"] = "reset"
    /\ \E count \in 0..MaxTracks :
          /\ total_tracks' = count
          /\ au_show_index' = IF count > 0 THEN current_track ELSE au_show_index
    /\ au_pc' = [au_pc EXCEPT !["main"] = "while", !["auto"] = "xSemaphoreTake"]
    /\ UNCHANGED <<au_local, current_track, is_playing, playback_semaphore,
                   au_player, au_play_index>>
    /\ OnlyAudio

AuInit ==
    /\ au_pc = [t \in {"main", "auto", "ui"} |->
                  CASE t = "main" -> "reset"
                    [] t = "auto" -> "start"
                    [] OTHER -> "idle"]
    /\ au_local = [t \in {"auto", "ui"} |-> 0]
    /\ total_tracks = 0
    /\ current_track = 0
    /\ is_playing = FALSE
    /\ playback_semaphore = 0
    /\ au_player = "idle"
    /\ au_play_index = -1
    /\ au_show_index = -1

AuNext ==
    \/ au_app_main
    \/ audio_player_callback
    \/ auto_play_task_take
    \/ auto_play_task_load
    \/ auto_play_task_store
    \/ auto_play_task_wrap
    \/ \E t \in {"auto", "ui"} : play_current_track(t) \/ update_ui(t)
    \/ \E btn \in {"next_btn_click_cb", "prev_btn_click_cb"} : step_btn_click_cb(btn)
    \/ step_btn_click_cb_store
    \/ track_list_click_cb
    \/ play_btn_click_cb

(***************************************************************************)
(* MP3 player: range of the track index                                    *)
(***************************************************************************)
AuInRange(i) == i \in 0..(total_tracks - 1)

\* A Next or Previous callback that has read a track in range stores its
\* neighbour, the first after the last and the last before the first.
AuWrapStep ==
    (step_btn_click_cb_store /\ AuInRange(au_local["ui"])) =>
        current_track' =
            IF au_pc["ui"] = "next_btn_click_cb"
            THEN (au_local["ui"] + 1) % total_tracks
            ELSE (au_local["ui"] + total_tracks - 1) % total_tracks

\* C27: with total_tracks > 0, current_track is in 0 .. total_tracks - 1
\* in every state, under every interleaving of auto_play_task with the
\* Next, Previous and track-select callbacks; Next and Previous wrap
\* around at the ends; and no index passed to the player or to the display
\* is out of range.
C27_TrackIndexInRange ==
    /\ [](total_tracks > 0 =>
            /\ AuInRange(current_track)
            /\ au_play_index # -1 => AuInRange(au_play_index)
            /\ au_show_index # -1 => AuInRange(au_show_index))
    /\ [][AuWrapStep]_vars

(***************************************************************************)
(* Specifications: one per example (each example is its own firmware).     *)
(***************************************************************************)
Init == SdInit /\ WifiInit /\ BatInit /\ BleInit /\ ScanInit /\ RstInit
        /\ RsInit /\ NvsInit /\ HttpInit
        /\ AuInit

SpecSD == Init /\ [][SdNext]_vars
SpecWifi == Init /\ [][WifiNext]_vars
SpecBattery == Init /\ [][BatNext]_vars
SpecBle == Init /\ [][BleNext]_vars
SpecScan == Init /\ [][ScanNext]_vars
SpecReset == Init /\ [][RstNext]_vars
SpecRs485 == Init /\ [][RsNext]_vars
SpecNvs == Init /\ [][NvsNext]_vars
SpecHttp == Init /\ [][HttpNext]_vars
SpecAudio == Init /\ [][AuNext]_vars
\* Both tasks are scheduled: rs485_task sleeps in every round of its loop
\* (vTaskDelay), so the LVGL task runs, and a task waiting for a lock gets it
\* when the holder gives it back. Taps need not arrive.
SpecRs485Live ==
    /\ SpecRs485
    /\ SF_vars(RsTaskStep("worker") \/ RsWorkerStep)
    /\ SF_vars(RsTaskStep("ui") \/ RsUiStep)
\* The examples that reach the radio through the co-processor.
SpecHosted == Init /\ [][BleNext \/ ScanNext]_vars

====
